---------------------------- MODULE Spec2Model ----------------------------
(***************************************************************************)
(* Model of the MongoDB -> PostgreSQL migration engine.                    *)
(*                                                                         *)
(* Two entry points of the program are modelled, each as its own           *)
(* specification over the same variables:                                  *)
(*   SpecWriter     ImportUtils.execute_batch driven batch after batch,    *)
(*                  with the deferred SQL file applied at the end of the   *)
(*                  export                                                 *)
(*   SpecMigration  the migration loop of transfert_data.py, run after     *)
(*                  run over a changing source collection users, with the  *)
(*                  delete-and-insert strategies of the relation table     *)
(*                  user_events and with DirectTranslationStrategy on the  *)
(*                  table users                                            *)
(***************************************************************************)
EXTENDS Integers, Sequences, FiniteSets, TLC

VARIABLES
    entry,                   \* which entry point this behaviour runs
    pc,                      \* position of the run
    DIRECT_IMPORT,           \* import_strategies.DIRECT_IMPORT
    IMPORT_BY_BATCH,         \* import_strategies.IMPORT_BY_BATCH
    table_name,              \* config.table_name
    pg_table,                \* committed rows of the target table
    pg_users,                \* ids present in the target table users
    pg_events,               \* ids present in the target table events
    summary,                 \* ImportSummary.stats of the table's summary instance
    sql_file,                \* sql_exports/<table>_import.sql, one statement per entry
    use_on_conflict,         \* use_on_conflict handed to execute_batch
    on_conflict_clause,      \* on_conflict_clause handed to execute_batch
    all_batch_values,        \* rows of the current batch
    tried,                   \* number of rows handed to execute_batch for the table
    last,                    \* record of the last execute_batch call
    strategy,                \* schema.import_strategy of the table
    mongo_users,             \* the source collection users, by _id
    clock,                   \* the time the source stamps its writes with
    batch_size,              \* config.batch_size
    after_date,              \* config.after_date
    offset,                  \* offset of the migration loop
    documents,               \* _ids of the documents of the current batch
    parent_ids_for_deletion, \* parent ids collected for the DELETE
    edits,                   \* number of writes the source has taken
    runs,                    \* number of runs started
    hist,                    \* what the current batch and the last runs did
    mongo_userquizzs,        \* the source collection userquizzs
    moments_details_batch_cache, \* schemas._moments_details_batch_cache
    pg_details,              \* committed rows of users_logbooks_moments_details
    call,                    \* a call of one function: its name and arguments
    returned,                \* what the call returned or raised
    TRANSFER_DESTINATION,    \* the environment variable of that name
    TRANSFER_SOURCE,         \* the environment variable of that name
    conn,                    \* conn of run_migration
    pg_connection_instance,  \* postgres_connection._pg_connection_instance
    ssh_tunnel,              \* ssh_tunnel of the PostgresConnection of the run
    mongo_client,            \* MongoConnection._client
    mongo_ssh_tunnel,        \* MongoConnection._ssh_tunnel
    exit,                    \* how the try body of run_migration ended
    GLOBAL_DATE_THRESHOLD,   \* the environment variable of that name
    global_threshold,        \* global_threshold of run_migration
    force_reimport,          \* tables whose schema sets force_reimport
    truncate_before_import,  \* tables whose schema sets truncate_before_import
    pg_catalog,              \* columns and foreign keys of the target's tables
    all_statements,          \* all_statements of prompt_and_apply_updates
    all_errors,              \* all_errors of prompt_and_apply_updates
    response,                \* what the operator typed at the prompt
    executed,                \* statements the reconciler handed to the cursor
    sorted_tables,           \* sorted_tables of run_migration, by name
    table_index,             \* position of run_migration in sorted_tables
    remaining,               \* documents the current collection still holds
    rlog                     \* what the run has done so far, table by table

runnerVars == <<GLOBAL_DATE_THRESHOLD, global_threshold, force_reimport,
                truncate_before_import, pg_catalog, all_statements, all_errors,
                response, executed, sorted_tables, table_index, remaining, rlog>>
resourceVars == <<TRANSFER_DESTINATION, TRANSFER_SOURCE, conn, pg_connection_instance,
                  ssh_tunnel, mongo_client, mongo_ssh_tunnel, exit>>
detailVars == <<moments_details_batch_cache, pg_details>>
exportVars == <<mongo_userquizzs, call, returned, resourceVars, detailVars>>
configVars == <<entry, DIRECT_IMPORT, IMPORT_BY_BATCH, table_name, pg_users,
                pg_events, strategy, batch_size, runnerVars, exportVars>>
\* configVars but for the cache and the table of details
configFrame == <<entry, DIRECT_IMPORT, IMPORT_BY_BATCH, table_name, pg_users,
                 pg_events, strategy, batch_size, runnerVars, mongo_userquizzs,
                 call, returned, resourceVars>>
sourceVars == <<mongo_users, clock, edits>>
loopVars == <<after_date, offset, documents, parent_ids_for_deletion, runs, hist>>

vars == <<entry, pc, DIRECT_IMPORT, IMPORT_BY_BATCH, table_name, pg_table,
          pg_users, pg_events, summary, sql_file, use_on_conflict,
          on_conflict_clause, all_batch_values, tried, last, strategy,
          mongo_users, clock, batch_size, after_date, offset, documents,
          parent_ids_for_deletion, edits, runs, hist, runnerVars, exportVars>>

(***************************************************************************)
(* Bounds of the model                                                     *)
(***************************************************************************)
MaxTime == 2
MaxBatchRows == 2
MaxCalls == 6
MaxBatchSize == 2
MaxEdits == 1
MaxRuns == 2
MaxDocs == 2

(***************************************************************************)
(* Program constants                                                       *)
(***************************************************************************)
max_failed_records == 10
ReasonChars == 100

\* Python None: NULL in a text column, NoDate in a timestamp column
NULL == "NULL"
NoDate == 0 - 1
\* '1900-01-01'::timestamp, below every timestamp of the source
Epoch == 0 - 2
UserIds == {"u1", "u2"}
EventIds == {"e1", "e2"}

Min(a, b) == IF a < b THEN a ELSE b
Max(a, b) == IF a < b THEN b ELSE a

(***************************************************************************)
(* The registry of schemas.py                                              *)
(***************************************************************************)
\* ColumnDefinition; foreign_key is <<table, column>>, << >> for None
ColumnDefinition(name, nullable, primary_key, foreign_key) ==
    [name |-> name, nullable |-> nullable, primary_key |-> primary_key,
     foreign_key |-> foreign_key]

\* BaseEntitySchema.get_base_columns
get_base_columns ==
    <<ColumnDefinition("id", TRUE, TRUE, << >>),
      ColumnDefinition("created_at", FALSE, FALSE, << >>),
      ColumnDefinition("updated_at", FALSE, FALSE, << >>)>>

TableSchema(name, mongo_collection, columns, export_order, unique_constraints) ==
    [name |-> name, mongo_collection |-> mongo_collection, columns |-> columns,
     export_order |-> export_order, unique_constraints |-> unique_constraints]

\* the keys of TABLE_SCHEMAS, in the order of their insertion
RegistryNames ==
    <<"ingredients", "appointment_types", "companies", "offers",
      "categories", "targets", "events", "users", "user_events",
      "users_targets", "messages", "coachings", "users_logbook",
      "users_logbooks_moments", "users_logbooks_moments_details",
      "appointments", "recipes", "menus", "menu_recipes">>

\* TABLE_SCHEMAS[t]
TABLE_SCHEMAS(t) ==
    CASE t = "ingredients" ->
         TableSchema("ingredients", "ingredients",
             get_base_columns \o
             <<ColumnDefinition("name", FALSE, FALSE, << >>)>>,
             1, << >>)
      [] t = "appointment_types" ->
         TableSchema("appointment_types", "appointmenttypes",
             get_base_columns \o
             <<ColumnDefinition("title", FALSE, FALSE, << >>)>>,
             1, << >>)
      [] t = "companies" ->
         TableSchema("companies", "companies",
             get_base_columns \o
             <<ColumnDefinition("name", FALSE, FALSE, << >>)>>,
             1, << >>)
      [] t = "offers" ->
         TableSchema("offers", "offers",
             get_base_columns \o
             <<ColumnDefinition("name", FALSE, FALSE, << >>),
               ColumnDefinition("duration", FALSE, FALSE, << >>),
               ColumnDefinition("coaching_credit", FALSE, FALSE, << >>)>>,
             1, << >>)
      [] t = "categories" ->
         TableSchema("categories", "categories",
             get_base_columns \o
             <<ColumnDefinition("name", FALSE, FALSE, << >>),
               ColumnDefinition("type", FALSE, FALSE, << >>)>>,
             1, << >>)
      [] t = "targets" ->
         TableSchema("targets", "targets",
             get_base_columns \o
             <<ColumnDefinition("name", FALSE, FALSE, << >>)>>,
             1, << >>)
      [] t = "events" ->
         TableSchema("events", "events",
             get_base_columns \o
             <<ColumnDefinition("name", FALSE, FALSE, << >>),
               ColumnDefinition("type", FALSE, FALSE, << >>),
               ColumnDefinition("start_date", FALSE, FALSE, << >>),
               ColumnDefinition("end_date", FALSE, FALSE, << >>),
               ColumnDefinition("company_id", TRUE, FALSE, <<"companies", "id">>)>>,
             2, << >>)
      [] t = "users" ->
         TableSchema("users", "users",
             get_base_columns \o
             <<ColumnDefinition("firstname", FALSE, FALSE, << >>),
               ColumnDefinition("lastname", FALSE, FALSE, << >>),
               ColumnDefinition("email", FALSE, FALSE, << >>),
               ColumnDefinition("birthdate", TRUE, FALSE, << >>),
               ColumnDefinition("company_id", TRUE, FALSE, <<"companies", "id">>),
               ColumnDefinition("role", FALSE, FALSE, << >>)>>,
             2, << >>)
      [] t = "user_events" ->
         TableSchema("user_events", "users",
             <<ColumnDefinition("user_id", FALSE, FALSE, <<"users", "id">>),
               ColumnDefinition("event_id", FALSE, FALSE, <<"events", "id">>),
               ColumnDefinition("created_at", FALSE, FALSE, << >>),
               ColumnDefinition("updated_at", FALSE, FALSE, << >>)>>,
             3, <<<<"user_id", "event_id">>>>)
      [] t = "users_targets" ->
         TableSchema("users_targets", "users",
             <<ColumnDefinition("user_id", FALSE, FALSE, <<"users", "id">>),
               ColumnDefinition("target_id", FALSE, FALSE, <<"targets", "id">>),
               ColumnDefinition("type", FALSE, FALSE, << >>),
               ColumnDefinition("created_at", FALSE, FALSE, << >>),
               ColumnDefinition("updated_at", FALSE, FALSE, << >>)>>,
             3, <<<<"user_id", "target_id", "type">>>>)
      [] t = "messages" ->
         TableSchema("messages", "messages",
             get_base_columns \o
             <<ColumnDefinition("sender_id", TRUE, FALSE, <<"users", "id">>),
               ColumnDefinition("receiver_id", TRUE, FALSE, <<"users", "id">>),
               ColumnDefinition("content", FALSE, FALSE, << >>)>>,
             3, << >>)
      [] t = "coachings" ->
         TableSchema("coachings", "coachings",
             get_base_columns \o
             <<ColumnDefinition("user_id", TRUE, FALSE, <<"users", "id">>),
               ColumnDefinition("diet_id", TRUE, FALSE, <<"users", "id">>),
               ColumnDefinition("offer_id", TRUE, FALSE, <<"offers", "id">>),
               ColumnDefinition("status", FALSE, FALSE, << >>)>>,
             3, << >>)
      [] t = "users_logbook" ->
         TableSchema("users_logbook", "coachinglogbooks",
             <<ColumnDefinition("id", TRUE, TRUE, << >>),
               ColumnDefinition("user_id", FALSE, FALSE, <<"users", "id">>),
               ColumnDefinition("day", FALSE, FALSE, << >>),
               ColumnDefinition("created_at", FALSE, FALSE, << >>),
               ColumnDefinition("updated_at", FALSE, FALSE, << >>)>>,
             3, <<<<"user_id", "day">>>>)
      [] t = "users_logbooks_moments" ->
         TableSchema("users_logbooks_moments", "userquizzs",
             get_base_columns \o
             <<ColumnDefinition("user_logbook_id", FALSE, FALSE, <<"users_logbook", "id">>),
               ColumnDefinition("type", FALSE, FALSE, << >>)>>,
             4, << >>)
      [] t = "users_logbooks_moments_details" ->
         TableSchema("users_logbooks_moments_details", "userquizzs",
             get_base_columns \o
             <<ColumnDefinition("user_logbook_moment_id", FALSE, FALSE, <<"users_logbooks_moments", "id">>),
               ColumnDefinition("question", FALSE, FALSE, << >>),
               ColumnDefinition("answer", FALSE, FALSE, << >>)>>,
             5, << >>)
      [] t = "appointments" ->
         TableSchema("appointments", "appointments",
             get_base_columns \o
             <<ColumnDefinition("user_id", TRUE, FALSE, <<"users", "id">>),
               ColumnDefinition("coaching_id", TRUE, FALSE, <<"coachings", "id">>),
               ColumnDefinition("type_id", TRUE, FALSE, <<"appointment_types", "id">>),
               ColumnDefinition("start_date", FALSE, FALSE, << >>),
               ColumnDefinition("end_date", FALSE, FALSE, << >>),
               ColumnDefinition("validated", TRUE, FALSE, << >>),
               ColumnDefinition("order_nb", FALSE, FALSE, << >>)>>,
             6, << >>)
      [] t = "recipes" ->
         TableSchema("recipes", "recipes",
             get_base_columns \o
             <<ColumnDefinition("name", FALSE, FALSE, << >>)>>,
             1, << >>)
      [] t = "menus" ->
         TableSchema("menus", "menus",
             get_base_columns \o
             <<ColumnDefinition("name", FALSE, FALSE, << >>)>>,
             2, << >>)
      [] t = "menu_recipes" ->
         TableSchema("menu_recipes", "menu_recipes",
             <<ColumnDefinition("menu_id", FALSE, FALSE, <<"menus", "id">>),
               ColumnDefinition("recipe_id", FALSE, FALSE, <<"recipes", "id">>),
               ColumnDefinition("created_at", FALSE, FALSE, << >>),
               ColumnDefinition("updated_at", FALSE, FALSE, << >>)>>,
             3, <<<<"menu_id", "recipe_id">>>>)


(***************************************************************************)
(* ImportSummary                                                           *)
(***************************************************************************)
Entities == {"users", "USERS", "user_events", "USER_EVENTS",
             "users_logbooks_moments", "USERS_LOGBOOKS_MOMENTS",
             "users_logbooks_moments_details", "unknown"}

EmptyStats == [good |-> 0, bad |-> << >>, skipped |-> 0, failed_records |-> << >>]

\* bad is a defaultdict(int): a reason that was never recorded counts 0.
\* It is kept as a sequence of <<reason, count>> pairs in order of first use.
BadCount(bad, reason) ==
    IF \E i \in 1..Len(bad) : bad[i][1] = reason
    THEN (CHOOSE p \in {bad[i] : i \in 1..Len(bad)} : p[1] = reason)[2]
    ELSE 0

BadIncrement(bad, reason) ==
    IF \E i \in 1..Len(bad) : bad[i][1] = reason
    THEN [i \in 1..Len(bad) |->
            IF bad[i][1] = reason THEN <<reason, bad[i][2] + 1>> ELSE bad[i]]
    ELSE Append(bad, <<reason, 1>>)

RECURSIVE SumBad(_)
SumBad(bad) == IF bad = << >> THEN 0 ELSE Head(bad)[2] + SumBad(Tail(bad))

ImportSummaryInit == [e \in Entities |-> EmptyStats]

record_success(stats, entity, count) ==
    [stats EXCEPT ![entity].good = @ + count]

record_skipped(stats, entity, count) ==
    [stats EXCEPT ![entity].skipped = @ + count]

\* failed_record is a dict: NoRecord is the absent (None) argument,
\* [id |-> x] the dict built from a row, [statement_index |-> i] the one
\* built by execute_sql_file.
NoRecord == [none |-> TRUE]

\* record_error without the limit on the stored samples
record_error_Unbounded(stats, entity, reason, failed_record) ==
    [stats EXCEPT
        ![entity].bad = BadIncrement(@, reason),
        ![entity].failed_records =
            IF failed_record # NoRecord
            THEN Append(@, [reason |-> reason,
                            record_id |-> IF "id" \in DOMAIN failed_record
                                          THEN failed_record.id ELSE "unknown"])
            ELSE @]

record_error(stats, entity, reason, failed_record) ==
    [stats EXCEPT
        ![entity].bad = BadIncrement(@, reason),
        ![entity].failed_records =
            IF failed_record # NoRecord /\ Len(@) < max_failed_records
            THEN Append(@, [reason |-> reason,
                            record_id |-> IF "id" \in DOMAIN failed_record
                                          THEN failed_record.id ELSE "unknown"])
            ELSE @]

(***************************************************************************)
(* The target engine: one INSERT statement against a table                 *)
(***************************************************************************)
user_events_columns == <<"user_id", "event_id", "created_at", "updated_at">>
users_columns == <<"firstname", "id", "created_at", "updated_at">>
moment_columns == <<"id", "user_logbook_id", "type", "created_at", "updated_at">>
details_columns ==
    <<"id", "user_logbook_moment_id", "question", "answer", "created_at", "updated_at">>

SchemaColumns(t) ==
    IF t = "user_events" THEN user_events_columns
    ELSE IF t = "users_logbooks_moments" THEN moment_columns
    ELSE IF t = "users_logbooks_moments_details" THEN details_columns
    ELSE users_columns

\* columns of the key an insert can conflict on: the unique constraint of
\* user_events, the primary key of users
KeyColumns(t) == IF t = "user_events" THEN <<"user_id", "event_id">> ELSE <<"id">>

ColIndex(cols, c) == CHOOSE i \in 1..Len(cols) : cols[i] = c
Get(t, row, c) == row[ColIndex(SchemaColumns(t), c)]
RowKey(t, row) == [i \in 1..Len(KeyColumns(t)) |-> Get(t, row, KeyColumns(t)[i])]

Range(s) == {s[i] : i \in 1..Len(s)}

NoError == [class |-> "none", message |-> << >>]
IntegrityError(msg) == [class |-> "IntegrityError", message |-> msg]
OtherError(msg) == [class |-> "Error", message |-> msg]

NullMessage(c) == <<"null value", "in column", c, "violates", "not-null constraint">>
UniqueMessage(k) == <<"duplicate key value violates unique constraint", "DETAIL:">> \o k
ForeignKeyMessage(c) ==
    <<"insert or update on table violates", "foreign key constraint", "DETAIL:", c>>

\* every column of the three tables is NOT NULL (the primary key included)
IsNone(c, v) == IF c \in {"created_at", "updated_at"} THEN v = NoDate ELSE v = NULL
NullColumns(t, row) == {c \in Range(SchemaColumns(t)) : IsNone(c, Get(t, row, c))}

ForeignKeyBroken(t, row) ==
    IF t = "user_events"
    THEN {c \in {"user_id", "event_id"} :
            \/ c = "user_id" /\ Get(t, row, c) \notin pg_users
            \/ c = "event_id" /\ Get(t, row, c) \notin pg_events}
    ELSE IF t = "users_logbooks_moments_details"
    THEN {c \in {"user_logbook_moment_id"} :
            Get(t, row, c) \notin {m[1] : m \in pg_table}}
    ELSE {}

DO_NOTHING == " ON CONFLICT (id) DO NOTHING"
DO_UPDATE == " ON CONFLICT DO UPDATE SET"
Clauses == {"", DO_NOTHING, DO_UPDATE}

\* One parameterized INSERT: the not-null check, then the unique index (or
\* the conflict action), then the foreign keys at the end of the statement.
PgInsert(t, tbl, row, clause) ==
    IF Len(row) # Len(SchemaColumns(t))
    THEN [table |-> tbl, rowcount |-> 0,
          error |-> OtherError(<<"list index out of range">>)]
    ELSE IF clause = DO_NOTHING /\ "id" \notin Range(SchemaColumns(t))
    THEN [table |-> tbl, rowcount |-> 0,
          error |-> OtherError(<<"column id does not exist">>)]
    ELSE IF NullColumns(t, row) # {}
    THEN [table |-> tbl, rowcount |-> 0,
          error |-> IntegrityError(NullMessage(CHOOSE c \in NullColumns(t, row) : TRUE))]
    ELSE LET same == {r \in tbl : RowKey(t, r) = RowKey(t, row)} IN
         IF same # {} /\ clause = ""
         THEN [table |-> tbl, rowcount |-> 0,
               error |-> IntegrityError(UniqueMessage(RowKey(t, row)))]
         ELSE IF same # {} /\ clause = DO_NOTHING
         THEN [table |-> tbl, rowcount |-> 0, error |-> NoError]
         ELSE IF ForeignKeyBroken(t, row) # {}
         THEN [table |-> tbl, rowcount |-> 0,
               error |-> IntegrityError(
                   ForeignKeyMessage(CHOOSE c \in ForeignKeyBroken(t, row) : TRUE))]
         ELSE [table |-> (tbl \ same) \cup {row}, rowcount |-> 1, error |-> NoError]


(***************************************************************************)
(* ImportUtils: the target writer                                          *)
(***************************************************************************)
Mentions(msg, phrase) == phrase \in Range(msg)

\* str.lower() of an engine message
LowerToken(w) == IF w = "DETAIL:" THEN "detail:" ELSE w
Lower(msg) == [i \in 1..Len(msg) |-> LowerToken(msg[i])]

\* str(e)[:100]
First100(msg) == SubSeq(msg, 1, Min(Len(msg), ReasonChars))

IntegrityReason(msg) ==
    LET error_message == Lower(msg) IN
    IF Mentions(error_message, "foreign key constraint")
    THEN <<"Foreign key constraint">>
    ELSE IF \/ Mentions(error_message, "null value")
            \/ Mentions(error_message, "not-null constraint")
    THEN <<"NULL constraint">>
    ELSE <<"Other integrity error: ">> \o First100(msg)

FailedRecord(values) == [id |-> IF values # << >> THEN values[1] ELSE "unknown"]

\* cursor.executemany: the statement is executed row after row, the
\* rowcounts add up, the first error stops it. fault is the number of the
\* statement at which the connection fails (0: it does not).
RECURSIVE executemany(_, _, _, _, _, _)
executemany(t, tbl, rows, clause, fault, n) ==
    IF rows = << >>
    THEN [table |-> tbl, rowcount |-> 0, error |-> NoError]
    ELSE IF fault = n
    THEN [table |-> tbl, rowcount |-> 0,
          error |-> OtherError(<<"server closed the connection unexpectedly">>)]
    ELSE LET r == PgInsert(t, tbl, Head(rows), clause) IN
         IF r.error # NoError
         THEN r
         ELSE LET rest == executemany(t, r.table, Tail(rows), clause, fault, n + 1) IN
              [table |-> rest.table, rowcount |-> r.rowcount + rest.rowcount,
               error |-> rest.error]

RECURSIVE handle_batch_errors(_, _, _, _, _, _)

\* no per-row retry: a batch that failed as a whole is dropped
handle_batch_errors_DropBatch(t, tbl, stats, rows, clause, successful_count) ==
    [table |-> tbl, stats |-> stats, ret |-> successful_count, raised |-> FALSE]

\* ImportUtils.handle_batch_errors: every row under its own savepoint
handle_batch_errors(t, tbl, stats, rows, clause, successful_count) ==
    IF rows = << >>
    THEN [table |-> tbl, stats |-> stats, ret |-> successful_count, raised |-> FALSE]
    ELSE LET values == Head(rows)
             r == PgInsert(t, tbl, values, clause)
         IN
         IF r.error = NoError
         THEN handle_batch_errors(t, r.table, record_success(stats, t, 1),
                                  Tail(rows), clause, successful_count + 1)
         ELSE IF r.error.class = "IntegrityError"
         THEN handle_batch_errors(t, tbl,
                  record_error(stats, t, IntegrityReason(r.error.message),
                               FailedRecord(values)),
                  Tail(rows), clause, successful_count)
         ELSE handle_batch_errors(t, tbl,
                  record_error(stats, t,
                               <<"Unexpected error: ">> \o First100(r.error.message),
                               FailedRecord(values)),
                  Tail(rows), clause, successful_count)

\* the IMPORT_BY_BATCH = False branch of execute_direct_sql: only an
\* IntegrityError is caught, anything else rolls the connection back
RECURSIVE individual_inserts(_, _, _, _, _, _, _, _, _)
individual_inserts(t, tbl0, tbl, stats, rows, clause, fault, n, successful_count) ==
    IF rows = << >>
    THEN [table |-> tbl, stats |-> stats, ret |-> successful_count, raised |-> FALSE]
    ELSE LET values == Head(rows)
             r == IF fault = n
                  THEN [table |-> tbl, rowcount |-> 0,
                        error |-> OtherError(<<"server closed the connection unexpectedly">>)]
                  ELSE PgInsert(t, tbl, values, clause)
         IN
         IF r.error = NoError
         THEN individual_inserts(t, tbl0, r.table, record_success(stats, t, 1),
                                 Tail(rows), clause, fault, n + 1, successful_count + 1)
         ELSE IF r.error.class = "IntegrityError"
         THEN individual_inserts(t, tbl0, tbl,
                  record_error(stats, t, IntegrityReason(r.error.message),
                               FailedRecord(values)),
                  Tail(rows), clause, fault, n + 1, successful_count)
         ELSE [table |-> tbl0, stats |-> stats, ret |-> 0, raised |-> TRUE]

ConflictClause(use, clause) ==
    IF clause # "" THEN clause ELSE IF use THEN DO_NOTHING ELSE ""

\* execute_direct_sql without the check of the rowcount of a batch that ran
\* without use_on_conflict
execute_direct_sql_AcceptShort(tbl, stats, batch_values, columns, t, use, clause, fault) ==
    IF batch_values = << >> \/ columns = << >>
    THEN [table |-> tbl, stats |-> stats, ret |-> 0, raised |-> FALSE]
    ELSE LET conflict_clause == ConflictClause(use, clause) IN
         IF IMPORT_BY_BATCH
         THEN LET m == executemany(t, tbl, batch_values, conflict_clause, fault, 1)
                  actual_insertions == m.rowcount
                  skipped_count == Len(batch_values) - actual_insertions
              IN
              IF m.error.class = "IntegrityError"
              THEN handle_batch_errors(t, tbl, stats, batch_values, conflict_clause, 0)
              ELSE IF m.error.class = "Error"
              THEN [table |-> tbl, stats |-> stats, ret |-> 0, raised |-> TRUE]
              ELSE [table |-> m.table,
                    stats |-> LET s1 == record_success(stats, t, actual_insertions) IN
                              IF skipped_count > 0
                              THEN record_skipped(s1, t, skipped_count) ELSE s1,
                    ret |-> actual_insertions, raised |-> FALSE]
         ELSE individual_inserts(t, tbl, tbl, stats, batch_values, conflict_clause,
                                 fault, 1, 0)

\* execute_direct_sql without ROLLBACK TO SAVEPOINT batch_insert before the
\* per-row retry: the rows applied before the failing one stay applied
execute_direct_sql_NoRollback(tbl, stats, batch_values, columns, t, use, clause, fault) ==
    IF batch_values = << >> \/ columns = << >>
    THEN [table |-> tbl, stats |-> stats, ret |-> 0, raised |-> FALSE]
    ELSE LET conflict_clause == ConflictClause(use, clause) IN
         IF IMPORT_BY_BATCH
         THEN LET m == executemany(t, tbl, batch_values, conflict_clause, fault, 1)
                  actual_insertions == m.rowcount
                  skipped_count == Len(batch_values) - actual_insertions
              IN
              IF m.error.class = "IntegrityError"
              THEN handle_batch_errors(t, m.table, stats, batch_values, conflict_clause, 0)
              ELSE IF m.error.class = "Error"
              THEN [table |-> tbl, stats |-> stats, ret |-> 0, raised |-> TRUE]
              ELSE IF ~use /\ actual_insertions # Len(batch_values)
              THEN handle_batch_errors(t, m.table, stats, batch_values, conflict_clause, 0)
              ELSE [table |-> m.table,
                    stats |-> LET s1 == record_success(stats, t, actual_insertions) IN
                              IF skipped_count > 0
                              THEN record_skipped(s1, t, skipped_count) ELSE s1,
                    ret |-> actual_insertions, raised |-> FALSE]
         ELSE individual_inserts(t, tbl, tbl, stats, batch_values, conflict_clause,
                                 fault, 1, 0)

\* ImportUtils.execute_direct_sql; columns = << >> stands for columns = None
execute_direct_sql(tbl, stats, batch_values, columns, t, use, clause, fault) ==
    IF batch_values = << >> \/ columns = << >>
    THEN [table |-> tbl, stats |-> stats, ret |-> 0, raised |-> FALSE]
    ELSE LET conflict_clause == ConflictClause(use, clause) IN
         IF IMPORT_BY_BATCH
         THEN LET m == executemany(t, tbl, batch_values, conflict_clause, fault, 1)
                  actual_insertions == m.rowcount
                  skipped_count == Len(batch_values) - actual_insertions
              IN
              IF m.error.class = "IntegrityError"
              THEN handle_batch_errors(t, tbl, stats, batch_values, conflict_clause, 0)
              ELSE IF m.error.class = "Error"
              THEN [table |-> tbl, stats |-> stats, ret |-> 0, raised |-> TRUE]
              ELSE IF ~use /\ actual_insertions # Len(batch_values)
              THEN handle_batch_errors(t, tbl, stats, batch_values, conflict_clause, 0)
              ELSE [table |-> m.table,
                    stats |-> LET s1 == record_success(stats, t, actual_insertions) IN
                              IF skipped_count > 0
                              THEN record_skipped(s1, t, skipped_count) ELSE s1,
                    ret |-> actual_insertions, raised |-> FALSE]
         ELSE individual_inserts(t, tbl, tbl, stats, batch_values, conflict_clause,
                                 fault, 1, 0)

\* ImportUtils.write_sql_file: one INSERT statement per row appended to the file
Statement(t, values, conflict_clause) ==
    [table |-> t, values |-> values, clause |-> conflict_clause]

write_sql_file(file, stats, batch_values, columns, t, use, clause) ==
    IF batch_values = << >> \/ columns = << >>
    THEN [file |-> file, stats |-> stats, ret |-> 0]
    ELSE [file |-> file \o [i \in 1..Len(batch_values) |->
                              Statement(t, batch_values[i], ConflictClause(use, clause))],
          stats |-> record_success(stats, t, Len(batch_values)),
          ret |-> Len(batch_values)]

\* statement.upper().split("INSERT INTO")[1].split()[0]
UpperTableName(t) ==
    IF t = "user_events" THEN "USER_EVENTS"
    ELSE IF t = "users_logbooks_moments" THEN "USERS_LOGBOOKS_MOMENTS"
    ELSE "USERS"

\* the string values of the model that hold a semicolon
SemicolonValues == {"a;b"}

\* sql_content.split(';') keeping the non-empty pieces: a statement comes
\* back whole unless one of its values holds a semicolon, which cuts it
\* into a piece that starts with INSERT INTO and one piece more for every
\* semicolon
RECURSIVE split_statements(_)
split_statements(file) ==
    IF file = << >>
    THEN << >>
    ELSE LET st == Head(file)
             IsString(k) == SchemaColumns(st.table)[k] \notin {"created_at", "updated_at"}
             cuts == Cardinality({k \in 1..Len(st.values) :
                                     IsString(k) /\ st.values[k] \in SemicolonValues})
         IN (IF cuts = 0
             THEN <<st>>
             ELSE <<[fragment |-> "head", table |-> st.table]>>
                  \o [k \in 1..cuts |-> [fragment |-> "tail", table |-> "unknown"]])
            \o split_statements(Tail(file))

\* an execution of the file that ends at the first statement that fails
RECURSIVE execute_sql_file_StopAtError(_, _, _, _, _)
execute_sql_file_StopAtError(tbl, stats, statements, i, executed_count) ==
    IF statements = << >>
    THEN [table |-> tbl, stats |-> stats, ret |-> executed_count]
    ELSE LET st == Head(statements) IN
         IF "fragment" \in DOMAIN st
         THEN [table |-> tbl, stats |-> stats, ret |-> executed_count]
         ELSE LET r == PgInsert(st.table, tbl, st.values, st.clause) IN
              IF r.error = NoError
              THEN execute_sql_file_StopAtError(r.table, stats, Tail(statements),
                                                   i + 1, executed_count + 1)
              ELSE [table |-> tbl, stats |-> stats, ret |-> executed_count]

\* ImportUtils.execute_sql_file on the pieces of the file: every piece
\* under its own savepoint; a piece of a statement is a syntax error
RECURSIVE execute_sql_file(_, _, _, _, _)
execute_sql_file(tbl, stats, statements, i, executed_count) ==
    IF statements = << >>
    THEN [table |-> tbl, stats |-> stats, ret |-> executed_count]
    ELSE LET st == Head(statements)
             r == PgInsert(st.table, tbl, st.values, st.clause)
         IN
         IF "fragment" \in DOMAIN st
         THEN execute_sql_file(tbl,
                  record_error(stats,
                      IF st.fragment = "head" THEN UpperTableName(st.table) ELSE "unknown",
                      <<"SQL file execution error: ">> \o First100(<<"syntax error">>),
                      [statement_index |-> i]),
                  Tail(statements), i + 1, executed_count)
         ELSE IF r.error = NoError
         THEN execute_sql_file(r.table, stats, Tail(statements), i + 1, executed_count + 1)
         ELSE execute_sql_file(tbl,
                  record_error(stats, UpperTableName(st.table),
                      (IF r.error.class = "IntegrityError"
                       THEN <<"SQL file integrity error: ">>
                       ELSE <<"SQL file execution error: ">>) \o First100(r.error.message),
                      [statement_index |-> i]),
                  Tail(statements), i + 1, executed_count)

\* ImportUtils.execute_batch: direct execution or SQL file generation
execute_batch(tbl, file, stats, batch_values, columns, t, use, clause, fault) ==
    IF DIRECT_IMPORT
    THEN LET d == execute_direct_sql(tbl, stats, batch_values, columns, t, use, clause, fault)
         IN [table |-> d.table, file |-> file, stats |-> d.stats,
             ret |-> d.ret, raised |-> d.raised]
    ELSE LET w == write_sql_file(file, stats, batch_values, columns, t, use, clause)
         IN [table |-> tbl, file |-> w.file, stats |-> w.stats,
             ret |-> w.ret, raised |-> FALSE]

NoCall == [n |-> 0]
CallRecord(rows, clause, fault, before, stats_before, r) ==
    [n |-> Len(rows), rows |-> rows, clause |-> clause, fault |-> fault,
     before |-> before, stats_before |-> stats_before,
     after |-> r.table, ret |-> r.ret, raised |-> r.raised]

(***************************************************************************)
(* The source collection users and the strategies that read it             *)
(***************************************************************************)
NoDoc == [absent |-> TRUE]
Doc(f, ev, c, u) ==
    [firstname |-> f, registered_events |-> ev, creation_date |-> c, update_date |-> u]

\* a document of the collection userquizzs of type QUIZZ_TYPE_LOGBOOK.
\* answered: one of its questions has an answer, in items or inline;
\* user_logbook_id: the id of the row of users_logbook its coachinglogbook
\* leads to, NULL when a lookup on the way finds nothing
QuizzIds == {"q1", "q2"}
Quizz(questions, answered, logbook, c, u) ==
    [name |-> "n", questions |-> questions, answered |-> answered,
     user_logbook_id |-> logbook, creation_date |-> c, update_date |-> u]

\* values of the registered_events array
Arrays == {<< >>, <<"e1">>, <<"e1", "e2">>}

\* UserEventsStrategy is the one of strategies/user_strategies.py,
\* SchemaUserEventsStrategy the one schemas.py registers for user_events
Strategies == {"UserEventsStrategy", "SchemaUserEventsStrategy", "DirectTranslationStrategy"}

\* the strategies the registry hands to export_data, users_logbooks_moments
\* among them
ExportStrategies ==
    {"SchemaUserEventsStrategy", "DirectTranslationStrategy",
     "UsersLogbooksMomentsStrategy"}

\* hasattr(strategy, 'get_delete_column_name')
IsDeleteAndInsert(s) == s \in {"UserEventsStrategy", "SchemaUserEventsStrategy"}

TableOf(s) ==
    IF IsDeleteAndInsert(s) THEN "user_events"
    ELSE IF s = "UsersLogbooksMomentsStrategy" THEN "users_logbooks_moments"
    ELSE "users"

\* {field: {'$gte': w}}: a missing or null field matches no date
Gte(v, w) == v # NoDate /\ v >= w

\* MongoRepository.build_date_filter, applied to a document
MongoRepository_build_date_filter(w, doc) ==
    IF w = NoDate
    THEN TRUE
    ELSE Gte(doc.creation_date, w) \/ Gte(doc.update_date, w)

\* a date filter built with $gt: a document stamped with the watermark
\* itself is left out
ImportUtils_build_date_filter_Strict(w, doc) ==
    IF w = NoDate
    THEN TRUE
    ELSE doc.creation_date # NoDate /\ doc.creation_date > w

\* ImportUtils.build_date_filter, applied to a document
ImportUtils_build_date_filter(w, doc) ==
    IF w = NoDate
    THEN TRUE
    ELSE Gte(doc.creation_date, w)

\* {'registered_events': {'$exists': True, '$ne': []}}; every document of
\* the model carries the field
StaticFilter(s, doc) ==
    IF IsDeleteAndInsert(s) THEN doc.registered_events # << >> ELSE TRUE

\* min_date of UsersLogbooksMomentsStrategy, on the clock of the model
min_date == 1

\* the filter of UsersLogbooksMomentsStrategy: questions, the hardcoded
\* minimum date, and the date filter when after_date is later than it
MomentsFilter(w, doc) ==
    /\ doc.questions # << >>
    /\ Gte(doc.creation_date, min_date) \/ Gte(doc.update_date, min_date)
    /\ IF w # NoDate /\ w > min_date
       THEN ImportUtils_build_date_filter(w, doc)
       ELSE TRUE

\* the filter count_total_documents and get_documents build
MongoFilter(s, w, doc) ==
    IF s = "UsersLogbooksMomentsStrategy"
    THEN MomentsFilter(w, doc)
    ELSE /\ StaticFilter(s, doc)
         /\ IF s = "UserEventsStrategy"
            THEN MongoRepository_build_date_filter(w, doc)
            ELSE ImportUtils_build_date_filter(w, doc)

Matching(s, coll, w) ==
    {u \in DOMAIN coll : coll[u] # NoDoc /\ MongoFilter(s, w, coll[u])}

count_total_documents(s, coll, w) == Cardinality(Matching(s, coll, w))

\* the order find() returns documents in: the natural order of the
\* collection, after .sort('creation_date', 1) where the strategy sorts
NaturalIndex(u) == IF u \in {"u1", "q1"} THEN 1 ELSE 2
SortKey(s, coll, u) == IF s = "UserEventsStrategy" THEN coll[u].creation_date ELSE 0

RECURSIVE Ordered(_, _, _)
Ordered(s, coll, ids) ==
    IF ids = {}
    THEN << >>
    ELSE LET first == CHOOSE u \in ids : \A v \in ids :
                          \/ SortKey(s, coll, u) < SortKey(s, coll, v)
                          \/ /\ SortKey(s, coll, u) = SortKey(s, coll, v)
                             /\ NaturalIndex(u) <= NaturalIndex(v)
         IN <<first>> \o Ordered(s, coll, ids \ {first})

\* find(filter).skip(offset).limit(batch_size)
get_documents(s, coll, w, skip, limit) ==
    LET all == Ordered(s, coll, Matching(s, coll, w)) IN
    IF skip >= Len(all)
    THEN << >>
    ELSE SubSeq(all, skip + 1, Min(skip + limit, Len(all)))

\* UserEventsStrategy.extract_data_for_sql: one row per element of the
\* array; x or y is y when x is None
UserEvents_extract_data_for_sql(id, doc) ==
    LET creation_date == doc.creation_date
        update_date == doc.update_date
        event_date == creation_date
    IN [i \in 1..Len(doc.registered_events) |->
          <<id, doc.registered_events[i],
            IF event_date # NoDate THEN event_date ELSE creation_date,
            IF update_date # NoDate THEN update_date
            ELSE IF event_date # NoDate THEN event_date ELSE creation_date>>]

\* DirectTranslationStrategy.extract_data_for_sql: one value per field
\* mapping of the schema, None for a field the document lacks
DirectTranslation_extract_data_for_sql(id, doc) ==
    <<doc.firstname, id, doc.creation_date, doc.update_date>>

\* UsersLogbooksMomentsStrategy.extract_data_for_sql, the row of a moment
UsersLogbooksMoments_extract_data_for_sql(id, doc) ==
    <<id, doc.user_logbook_id, doc.name, doc.creation_date, doc.update_date>>

\* extract_data_for_sql returns (None, None): the skips of
\* UsersLogbooksMomentsStrategy; config.custom_filter is None
ReturnsNone(s, id, doc) ==
    /\ s = "UsersLogbooksMomentsStrategy"
    /\ \/ doc.questions = << >>
       \/ ~doc.answered
       \/ doc.user_logbook_id = NULL

\* the questions whose template quizzquestion is of type QUIZZ_TYPE_LOGBOOK,
\* and the dates of the answer to a question
LogbookQuestions == {"k1"}
AnswerDates(k) == IF k = "k1" THEN <<0, 0>> ELSE <<1, NoDate>>

\* str(item['_id']) or str(userquizzquestion['_id']) of the answer to
\* question k of the quizz id
DetailId(id, k) ==
    IF id = "q1" THEN (IF k = "k1" THEN "q1k1" ELSE "q1k2")
    ELSE (IF k = "k1" THEN "q2k1" ELSE "q2k2")

\* UsersLogbooksMomentsStrategy._extract_details_for_moment: one row per
\* answer to a question whose template is a logbook question
extract_details_for_moment(id, doc) ==
    LET Kept(k) == k \in LogbookQuestions /\ doc.answered
        kept == SelectSeq(doc.questions, Kept)
    IN [i \in 1..Len(kept) |->
          <<DetailId(id, kept[i]), id, "title", "text",
            AnswerDates(kept[i])[1], AnswerDates(kept[i])[2]>>]

\* an extraction that caches the details of a document before it decides
\* to skip the document
details_rows_BeforeSkips(s, id, doc) ==
    IF s = "UsersLogbooksMomentsStrategy"
    THEN extract_details_for_moment(id, doc)
    ELSE << >>

\* what extract_data_for_sql extends _moments_details_batch_cache with:
\* the details of a document it returns a moment for
details_rows(s, id, doc) ==
    IF s = "UsersLogbooksMomentsStrategy" /\ ~ReturnsNone(s, id, doc)
    THEN extract_details_for_moment(id, doc)
    ELSE << >>

\* the rows the transform loop of a batch adds to the cache
RECURSIVE CachedBy(_, _, _)
CachedBy(s, coll, docs) ==
    IF docs = << >>
    THEN << >>
    ELSE details_rows(s, Head(docs), coll[Head(docs)]) \o CachedBy(s, coll, Tail(docs))

\* the documents of a batch extract_data_for_sql returns values for
Produced(s, coll, docs) ==
    LET Gives(id) == ~ReturnsNone(s, id, coll[id]) IN SelectSeq(docs, Gives)

\* values of extract_data_for_sql, where it returns some
extract_data_for_sql(s, id, doc) ==
    IF IsDeleteAndInsert(s)
    THEN UserEvents_extract_data_for_sql(id, doc)
    ELSE IF s = "UsersLogbooksMomentsStrategy"
    THEN UsersLogbooksMoments_extract_data_for_sql(id, doc)
    ELSE DirectTranslation_extract_data_for_sql(id, doc)

\* doc_columns of extract_data_for_sql, where it returns some
doc_columns(s) == SchemaColumns(TableOf(s))

RECURSIVE Transform(_, _, _)

\* a transform loop that appends what a document gives as one row,
\* whatever its form
Transform_AppendOnly(s, coll, docs) ==
    IF docs = << >>
    THEN << >>
    ELSE LET values == extract_data_for_sql(s, Head(docs), coll[Head(docs)]) IN
         (IF ReturnsNone(s, Head(docs), coll[Head(docs)])
          THEN << >>
          ELSE <<values>>)
             \o Transform(s, coll, Tail(docs))

\* the transform loop: a document that gives None is passed over, a list
\* of rows extends the batch, anything else is appended to it as one row
Transform(s, coll, docs) ==
    IF docs = << >>
    THEN << >>
    ELSE LET values == extract_data_for_sql(s, Head(docs), coll[Head(docs)]) IN
         (IF ReturnsNone(s, Head(docs), coll[Head(docs)])
          THEN << >>
          ELSE IF IsDeleteAndInsert(s) /\ Len(values) > 0 THEN values ELSE <<values>>)
             \o Transform(s, coll, Tail(docs))

\* columns of the transform loop: doc_columns of the first document that
\* gives values, << >> (None) when none does
BatchColumns(s, coll, docs) ==
    IF \E i \in 1..Len(docs) : ~ReturnsNone(s, docs[i], coll[docs[i]])
    THEN doc_columns(s)
    ELSE << >>

\* a strategy that asks for an upsert
get_use_on_conflict_Always(s) == TRUE

\* ImportStrategy.get_use_on_conflict, which no strategy of the model overrides
get_use_on_conflict(s) == FALSE

\* ImportStrategy.get_on_conflict_clause
get_on_conflict_clause(s, t) ==
    IF ~get_use_on_conflict(s) THEN "" ELSE DO_UPDATE

\* DELETE FROM <table> WHERE <column> IN (...) that spares every row
DeleteWhereIn_Nothing(t, tbl, column, ids) == tbl

\* DELETE FROM <table> WHERE <column> IN (...) that empties the table
DeleteWhereIn_All(t, tbl, column, ids) == {}

\* DELETE FROM <table> WHERE <column> NOT IN (<ids>)
DeleteWhereIn_NotIn(t, tbl, column, ids) ==
    {r \in tbl : Get(t, r, column) \in Range(ids)}

\* DELETE FROM <table> WHERE <column> IN (<ids>)
DeleteWhereIn(t, tbl, column, ids) ==
    {r \in tbl : Get(t, r, column) \notin Range(ids)}

\* the DELETE of the migration loop without conn.rollback() in its except
\* clause: what cursor.execute deleted before conn.commit() raised stays in
\* the transaction, which the commit of the INSERT ends
delete_existing_relationships_NoRollback(tbl, ids, failure) ==
    [table |-> IF failure = "execute" THEN tbl
               ELSE DeleteWhereIn("user_events", tbl, "user_id", ids),
     rollback |-> FALSE, cursor_closed |-> TRUE]

\* the DELETE of the migration loop: cursor.execute and conn.commit(); an
\* exception of either is printed, the connection is rolled back and the
\* loop goes on; the cursor is closed in the finally clause
delete_existing_relationships(tbl, ids, failure) ==
    IF failure = "none"
    THEN [table |-> DeleteWhereIn("user_events", tbl, "user_id", ids),
          rollback |-> FALSE, cursor_closed |-> TRUE]
    ELSE [table |-> tbl, rollback |-> TRUE, cursor_closed |-> TRUE]

SetMax(S) == CHOOSE x \in S : \A y \in S : y <= x

\* MAX(<column>), COALESCEd to the epoch on an empty table
ColumnMax(t, tbl, c) ==
    IF tbl = {} THEN Epoch ELSE SetMax({Get(t, r, c) : r \in tbl})

\* SELECT GREATEST(COALESCE(MAX(created_at), '1900-01-01'),
\*                 COALESCE(MAX(updated_at), '1900-01-01')) FROM <table>
SelectGreatest(t, tbl) ==
    Max(ColumnMax(t, tbl, "created_at"), ColumnMax(t, tbl, "updated_at"))

\* what get_last_insert_date makes of the fetched value: None for NULL and
\* for the epoch
LastDateOf(value) ==
    LET last_date == IF value # NoDate THEN value ELSE NoDate IN
    IF last_date # NoDate /\ last_date = Epoch THEN NoDate ELSE last_date

\* get_last_insert_date that reads MAX(created_at) alone
get_last_insert_date_CreatedOnly(t, tbl) ==
    LastDateOf(ColumnMax(t, tbl, "created_at"))

\* get_last_insert_date: None when the greatest value is the epoch
get_last_insert_date(t, tbl) ==
    LastDateOf(SelectGreatest(t, tbl))

\* phase: what the current batch has done to the target so far
\* before: the target before the batch, delete_raised: its DELETE failed
\* clean: the current run met no failure, last_clean: nor did the last run,
\*   which ran to its end
\* run_end, prev_end: the target at the end of the last run and of the run
\*   before; pair: both were clean and the source took no write in between
\* changed: the source took a write since the end of the last run
\* news, updates: the documents inserted and the number of rewrites since
\*   the end of the last run; run_news: the documents inserted between the
\*   last two runs; inc: both were clean and the source took nothing but one
\*   insert in between
\* rejected: the documents a row of which the target refused in the current
\*   run, or in the last one, and that the source has not rewritten since;
\*   prev_rejected: those of the run before, as the current run found them;
\*   selected: the documents the filter of the current run matches
\* produced: the documents the current run extracted a row from;
\*   details: where the export of users_logbooks_moments_details of the run
\*   stands; handed: the rows it handed to execute_batch
NoHist ==
    [phase |-> "none", before |-> {}, delete_raised |-> FALSE, clean |-> TRUE,
     last_clean |-> FALSE, run_end |-> {}, prev_end |-> {}, pair |-> FALSE,
     start_pair |-> FALSE, changed |-> FALSE, news |-> << >>, updates |-> 0,
     run_news |-> << >>, start_inc |-> FALSE, inc |-> FALSE,
     rollback |-> FALSE, cursor_closed |-> FALSE,
     rejected |-> {}, prev_rejected |-> {}, selected |-> {},
     produced |-> << >>, details |-> "none", handed |-> << >>]

RunStart(h) ==
    [h EXCEPT !.phase = "none", !.clean = TRUE, !.pair = FALSE,
              !.start_pair = h.last_clean /\ ~h.changed,
              !.inc = FALSE, !.run_news = h.news,
              !.start_inc = h.last_clean /\ Len(h.news) = 1 /\ h.updates = 0,
              !.prev_rejected = h.rejected, !.rejected = {}, !.selected = {},
              !.produced = << >>, !.details = "pending", !.handed = << >>]

RunEnd(h, tbl, ok) ==
    [h EXCEPT !.prev_end = h.run_end, !.run_end = tbl, !.last_clean = ok,
              !.pair = ok /\ h.start_pair, !.changed = FALSE,
              !.inc = ok /\ h.start_inc, !.news = << >>, !.updates = 0]

(***************************************************************************)
(* The runner: the order of the tables and the start date of a table       *)
(***************************************************************************)
TableNames == {RegistryNames[i] : i \in 1..Len(RegistryNames)}

\* the tables the foreign keys of a table reference
References(t) ==
    LET columns == TABLE_SCHEMAS(t).columns IN
    {columns[i].foreign_key[1] :
        i \in {k \in 1..Len(columns) : columns[k].foreign_key # << >>}}

export_order(t) == TABLE_SCHEMAS(t).export_order

\* the tables of one export_order, in the order of the registry
Bucket(k) ==
    LET Has(t) == export_order(t) = k IN SelectSeq(RegistryNames, Has)

SetMin(S) == CHOOSE x \in S : \A y \in S : x <= y

\* a sort of the registry that puts the greatest export_order first
RECURSIVE SortedFrom_Descending(_, _, _)
SortedFrom_Descending(k, lo, hi) ==
    IF k > hi THEN << >>
    ELSE Bucket(hi + lo - k) \o SortedFrom_Descending(k + 1, lo, hi)

\* the keys from k up, one bucket after the other
RECURSIVE SortedFrom(_, _, _)
SortedFrom(k, lo, hi) ==
    IF k > hi THEN << >> ELSE Bucket(k) \o SortedFrom(k + 1, lo, hi)

\* sorted(TABLE_SCHEMAS.items(), key=lambda x: x[1].export_order), by
\* name: a stable sort, equal keys keep the order of the registry
SortedRegistry ==
    LET orders == {export_order(t) : t \in TableNames} IN
    SortedFrom(SetMin(orders), SetMin(orders), SetMax(orders))

\* os.getenv('GLOBAL_DATE_THRESHOLD', ''): Unset for a variable that is not
\* set or holds blanks, Invalid for a text fromisoformat rejects, else the
\* date the text spells
Unset == 0 - 3
Invalid == 0 - 4

parse_global_date_threshold(threshold_str) ==
    IF threshold_str = Unset
    THEN NoDate
    ELSE IF threshold_str = Invalid THEN NoDate ELSE threshold_str

\* a combination that takes the later of the two dates
apply_global_threshold_Later(table_date, threshold) ==
    IF threshold = NoDate
    THEN table_date
    ELSE IF table_date = NoDate THEN threshold ELSE Max(table_date, threshold)

apply_global_threshold(table_date, threshold) ==
    IF threshold = NoDate
    THEN table_date
    ELSE IF table_date = NoDate THEN threshold ELSE Min(table_date, threshold)

\* a start date that applies the threshold to a forced table too
StartDate_ForceIgnored(force, table_last_date, threshold) ==
    apply_global_threshold(table_last_date, threshold)

\* after_date of a table in run_migration: None under force_reimport, else
\* the last date of the table combined with the threshold
StartDate(force, table_last_date, threshold) ==
    IF force THEN NoDate ELSE apply_global_threshold(table_last_date, threshold)

(***************************************************************************)
(* The schema reconciler                                                   *)
(***************************************************************************)
NoTable == [missing |-> TRUE]

ColumnNames(columns) == {columns[i].name : i \in 1..Len(columns)}

ForeignKeyColumns(columns) ==
    {columns[i].name : i \in {k \in 1..Len(columns) : columns[k].foreign_key # << >>}}

\* the table CREATE TABLE IF NOT EXISTS makes of a schema; retyped holds
\* the columns whose type in the target is not the one of the registry
get_create_sql(schema) ==
    [columns |-> ColumnNames(schema.columns),
     foreign_keys |-> ForeignKeyColumns(schema.columns),
     retyped |-> {}]

\* a setup that builds every table of the registry anew
create_table_Recreate(schema, current) == get_create_sql(schema)

\* the loop body of setup_tables for a table: created when
\* information_schema.tables has no such table, left as it is otherwise
create_table(schema, current) ==
    IF current = NoTable THEN get_create_sql(schema) ELSE current

UpToDate == [t \in TableNames |-> get_create_sql(TABLE_SCHEMAS(t))]

AddColumn(t, c, not_null) ==
    [op |-> "ALTER TABLE ADD COLUMN", table |-> t, column |-> c,
     not_null |-> not_null, references |-> << >>]
AddForeignKey(t, c, ref) ==
    [op |-> "ALTER TABLE ADD CONSTRAINT FOREIGN KEY", table |-> t, column |-> c,
     not_null |-> FALSE, references |-> ref]

\* the catalog after one statement
Execute(stmt, cat) ==
    IF stmt.op = "ALTER TABLE ADD COLUMN"
    THEN [cat EXCEPT ![stmt.table].columns = @ \cup {stmt.column}]
    ELSE [cat EXCEPT ![stmt.table].foreign_keys = @ \cup {stmt.column}]

RECURSIVE ExecuteAll(_, _)
ExecuteAll(stmts, cat) ==
    IF stmts = << >> THEN cat ELSE ExecuteAll(Tail(stmts), Execute(Head(stmts), cat))

\* compare_table_schema: the columns of the registry the table lacks
compare_table_schema(yaml_schema, current) ==
    LET Added(c) == c.name \notin current.columns
        added_columns == SelectSeq(yaml_schema.columns, Added)
        HasForeignKey(c) == c.foreign_key # << >>
        missing_foreign_keys == SelectSeq(added_columns, HasForeignKey)
        errors == << >>
    IN [added_columns |-> added_columns,
        missing_foreign_keys |-> missing_foreign_keys,
        errors |-> errors,
        status |-> IF errors # << >> THEN "error"
                   ELSE IF added_columns # << >> THEN "needs_update" ELSE "ok"]

\* SELECT COUNT(*) FROM <table>, for the tables whose rows the model holds
RowCount(t, users_rows, events_rows) ==
    IF t = "users" THEN Cardinality(users_rows)
    ELSE IF t = "events" THEN Cardinality(events_rows) ELSE 0

\* a generator that keeps NOT NULL on every non-nullable column, whatever
\* the table holds, and reports nothing
generate_alter_statements_KeepNotNull(t, differences, row_count) ==
    [statements |->
        [i \in 1..Len(differences.added_columns) |->
            LET c == differences.added_columns[i] IN
            AddColumn(t, c.name, ~c.nullable)]
        \o [i \in 1..Len(differences.missing_foreign_keys) |->
            LET c == differences.missing_foreign_keys[i] IN
            AddForeignKey(t, c.name, c.foreign_key)],
     errors |-> << >>]

\* generate_alter_statements: one ADD COLUMN per added column, NOT NULL
\* only where the table is empty, then the foreign keys
generate_alter_statements(t, differences, row_count) ==
    LET Unsafe(c) == ~c.nullable /\ row_count > 0
        unsafe == SelectSeq(differences.added_columns, Unsafe)
    IN [statements |->
            [i \in 1..Len(differences.added_columns) |->
                LET c == differences.added_columns[i] IN
                AddColumn(t, c.name, ~c.nullable /\ ~Unsafe(c))]
            \o [i \in 1..Len(differences.missing_foreign_keys) |->
                LET c == differences.missing_foreign_keys[i] IN
                AddForeignKey(t, c.name, c.foreign_key)],
        errors |-> [i \in 1..Len(unsafe) |->
                      [column |-> unsafe[i].name, table |-> t]]]

\* the tables setup_tables hands to prompt_and_apply_updates
AllUpdates(cat) ==
    LET Differs(t) ==
            /\ cat[t] # NoTable
            /\ compare_table_schema(TABLE_SCHEMAS(t), cat[t]).status # "ok"
    IN SelectSeq(SortedRegistry, Differs)

\* the first loop of prompt_and_apply_updates
RECURSIVE Plan(_, _, _, _)
Plan(updates, cat, users_rows, events_rows) ==
    IF updates = << >>
    THEN [statements |-> << >>, errors |-> << >>]
    ELSE LET t == Head(updates)
             r == generate_alter_statements(
                      t, compare_table_schema(TABLE_SCHEMAS(t), cat[t]),
                      RowCount(t, users_rows, events_rows))
             rest == Plan(Tail(updates), cat, users_rows, events_rows)
         IN [statements |-> r.statements \o rest.statements,
             errors |-> r.errors \o rest.errors]

\* str.strip and str.lower on the characters an answer is made of
RECURSIVE str_strip(_)
str_strip(s) ==
    IF s = << >> THEN s
    ELSE IF Head(s) = " " THEN str_strip(Tail(s))
    ELSE IF s[Len(s)] = " " THEN str_strip(SubSeq(s, 1, Len(s) - 1))
    ELSE s

LowerChar(c) ==
    IF c = "Y" THEN "y" ELSE IF c = "E" THEN "e" ELSE IF c = "S" THEN "s"
    ELSE IF c = "N" THEN "n" ELSE IF c = "O" THEN "o" ELSE c

str_lower(s) == [i \in 1..Len(s) |-> LowerChar(s[i])]

Affirmative == {<<"y", "e", "s">>, <<"y">>}

\* what the operator may type
Answers ==
    {<<"y", "e", "s">>, <<" ", "Y", " ">>, <<"n", "o">>, << >>, <<"y", "e", "s", "!">>}

\* a prompt that applies the plan whatever the operator types
prompt_and_apply_updates_Unasked(cat, plan, answer, failing) ==
    IF plan.errors # << >> \/ plan.statements = << >>
    THEN [catalog |-> cat, executed |-> << >>]
    ELSE [catalog |-> ExecuteAll(plan.statements, cat), executed |-> plan.statements]

\* prompt_and_apply_updates after the plan is shown: nothing with an error
\* in the plan, else the statements in order on the answer yes or y; the
\* statement numbered failing raises, which rolls the earlier ones back
prompt_and_apply_updates(cat, plan, answer, failing) ==
    IF plan.errors # << >> \/ plan.statements = << >>
    THEN [catalog |-> cat, executed |-> << >>]
    ELSE IF str_lower(str_strip(answer)) \in Affirmative
    THEN IF failing \in 1..Len(plan.statements)
         THEN [catalog |-> cat, executed |-> SubSeq(plan.statements, 1, failing)]
         ELSE [catalog |-> ExecuteAll(plan.statements, cat),
               executed |-> plan.statements]
    ELSE [catalog |-> cat, executed |-> << >>]

(***************************************************************************)
(* The state of run_migration                                              *)
(***************************************************************************)
\* watermark_read, fetched, completed: the tables whose last date was
\*   read, whose collection was read, whose export ran to its end
\* written: some row was handed to the target
\* truncated: the tables TRUNCATE was committed on
\* raised: the tables whose export an exception left
\* catalog_initial: the catalog the run found
\* created: the tables CREATE TABLE IF NOT EXISTS was executed for
\* catalog_before: the catalog when the plan was shown
\* table_last_date: the last date read of the table users
\* query_failed: the tables whose query of the last date raised psycopg2.Error
\* failed_transaction: the transaction of conn is aborted, every statement
\*   raises until a rollback
\* refused: the tables whose export raised on the aborted transaction
NoLog ==
    [watermark_read |-> {}, fetched |-> {}, written |-> FALSE, completed |-> {},
     truncated |-> {}, catalog_initial |-> UpToDate, created |-> {},
     catalog_before |-> UpToDate, table_last_date |-> NoDate, raised |-> {},
     query_failed |-> {}, failed_transaction |-> FALSE, refused |-> {}]

ExportIdle == mongo_userquizzs = [q \in QuizzIds |-> NoDoc]

\* the cache as the module sets it at import, and an empty table of details
DetailsIdle == moments_details_batch_cache = << >> /\ pg_details = {}

\* no connection, no client and no tunnel: the state of the process before
\* run_migration
ResourcesIdle ==
    /\ TRANSFER_DESTINATION = "local"
    /\ TRANSFER_SOURCE = "local"
    /\ conn = "unbound"
    /\ pg_connection_instance = "None"
    /\ ssh_tunnel = "None"
    /\ mongo_client = "None"
    /\ mongo_ssh_tunnel = "None"
    /\ exit = "none"

\* collection = get_mongo_collection(schema.mongo_collection)
Collection ==
    IF strategy = "UsersLogbooksMomentsStrategy" THEN mongo_userquizzs ELSE mongo_users

RunnerIdle ==
    /\ GLOBAL_DATE_THRESHOLD = Unset
    /\ global_threshold = NoDate
    /\ force_reimport = {}
    /\ truncate_before_import = {}
    /\ pg_catalog = UpToDate
    /\ all_statements = << >>
    /\ all_errors = << >>
    /\ response = << >>
    /\ executed = << >>
    /\ sorted_tables = << >>
    /\ table_index = 0
    /\ remaining = 0
    /\ rlog = NoLog

(***************************************************************************)
(* TableSchema.get_on_conflict_clause and                                  *)
(* PostgresRepository.delete_by_parent_ids                                 *)
(***************************************************************************)
NoCallYet == [fn |-> "none"]
CallIdle == call = NoCallYet /\ returned = NoCallYet

\* the argument columns: a list, or None
NoColumns == [given |-> FALSE, list |-> << >>]
SomeColumns(list) == [given |-> TRUE, list |-> list]

\* the clause, by its parts; NoClause is the empty string
NoClause == [target |-> << >>, action |-> "", update_columns |-> << >>]
OnConflict(target, action, update_columns) ==
    [target |-> target, action |-> action, update_columns |-> update_columns]

Names(cols) == [i \in 1..Len(cols) |-> cols[i].name]

\* get_on_conflict_clause with an UPDATE clause over all the columns of
\* the schema, whatever the insert holds
TableSchema_get_on_conflict_clause_AllColumns(schema, columns) ==
    LET insert_columns == ColumnNames(schema.columns)
        id_column == \E i \in 1..Len(schema.columns) :
                        schema.columns[i].name = "id" /\ schema.columns[i].primary_key
        NotKey(col) == ~col.primary_key /\ col.name \in insert_columns
    IN IF id_column
       THEN LET update_columns == Names(SelectSeq(schema.columns, NotKey)) IN
            IF update_columns # << >>
            THEN OnConflict(<<"id">>, "DO UPDATE SET", update_columns)
            ELSE OnConflict(<<"id">>, "DO NOTHING", << >>)
       ELSE IF schema.unique_constraints # << >>
       THEN LET constraint == schema.unique_constraints[1]
                Other(col) == col.name \notin Range(constraint) /\ NotKey(col)
                update_columns == Names(SelectSeq(schema.columns, Other))
            IN IF update_columns # << >>
               THEN OnConflict(constraint, "DO UPDATE SET", update_columns)
               ELSE OnConflict(constraint, "DO NOTHING", << >>)
       ELSE NoClause

\* TableSchema.get_on_conflict_clause; `if columns:` takes an empty list
\* for None
TableSchema_get_on_conflict_clause(schema, columns) ==
    LET insert_columns == IF columns.given /\ columns.list # << >>
                          THEN Range(columns.list)
                          ELSE ColumnNames(schema.columns)
        id_column == \E i \in 1..Len(schema.columns) :
                        schema.columns[i].name = "id" /\ schema.columns[i].primary_key
        NotKey(col) == ~col.primary_key /\ col.name \in insert_columns
    IN IF id_column
       THEN LET update_columns == Names(SelectSeq(schema.columns, NotKey)) IN
            IF update_columns # << >>
            THEN OnConflict(<<"id">>, "DO UPDATE SET", update_columns)
            ELSE OnConflict(<<"id">>, "DO NOTHING", << >>)
       ELSE IF schema.unique_constraints # << >>
       THEN LET constraint == schema.unique_constraints[1]
                Other(col) == col.name \notin Range(constraint) /\ NotKey(col)
                update_columns == Names(SelectSeq(schema.columns, Other))
            IN IF update_columns # << >>
               THEN OnConflict(constraint, "DO UPDATE SET", update_columns)
               ELSE OnConflict(constraint, "DO NOTHING", << >>)
       ELSE NoClause

\* delete_by_parent_ids that passes over a DELETE that failed
delete_by_parent_ids_Swallow(tbl, t, column_name, parent_ids, failure) ==
    IF parent_ids = << >>
    THEN [table |-> tbl, ret |-> 0, raised |-> FALSE, statements |-> 0]
    ELSE IF failure # "none"
    THEN [table |-> tbl, ret |-> 0, raised |-> FALSE, statements |-> 1]
    ELSE LET after == DeleteWhereIn(t, tbl, column_name, parent_ids) IN
         [table |-> after, ret |-> Cardinality(tbl \ after), raised |-> FALSE,
          statements |-> 1]

\* PostgresRepository.delete_by_parent_ids on the committed rows of the
\* table; failure is where the connection fails: at the DELETE, at the
\* commit, or nowhere
delete_by_parent_ids(tbl, t, column_name, parent_ids, failure) ==
    IF parent_ids = << >>
    THEN [table |-> tbl, ret |-> 0, raised |-> FALSE, statements |-> 0]
    ELSE IF failure # "none"
    THEN [table |-> tbl, ret |-> 0, raised |-> TRUE, statements |-> 1]
    ELSE LET after == DeleteWhereIn(t, tbl, column_name, parent_ids) IN
         [table |-> after, ret |-> Cardinality(tbl \ after), raised |-> FALSE,
          statements |-> 1]

(***************************************************************************)
(* SpecWriter: a table's export hands batch after batch to execute_batch,  *)
(* then applies the SQL file in deferred mode                              *)
(***************************************************************************)
WriterRows(t) ==
    IF t = "users"
    THEN {<<"a", "u1", 1, 1>>, <<"a", "u2", 1, 1>>, <<NULL, "u2", 1, 1>>,
          <<"a;b", "u2", 1, 1>>}
    ELSE {<<"u1", "e1", 1, 1>>, <<"u1", "e2", 1, 1>>, << >>}

WriterInitialTables(t) ==
    IF t = "users"
    THEN {{}, {<<"b", "u1", 0, 0>>}}
    ELSE {{}, {<<"u1", "e1", 0, 0>>}}

Batches(rows) == UNION {[1..n -> rows] : n \in 1..MaxBatchRows}

InitWriter ==
    /\ entry = "writer"
    /\ pc = "loop"
    /\ DIRECT_IMPORT \in BOOLEAN
    /\ IMPORT_BY_BATCH \in (IF DIRECT_IMPORT THEN BOOLEAN ELSE {TRUE})
    /\ table_name \in {"users", "user_events"}
    /\ pg_table \in WriterInitialTables(table_name)
    /\ pg_users = {"u1"}
    /\ pg_events = {"e1"}
    /\ summary = ImportSummaryInit
    /\ sql_file = << >>
    /\ use_on_conflict \in BOOLEAN
    /\ on_conflict_clause \in Clauses
    /\ all_batch_values \in Batches(WriterRows(table_name))
    /\ tried = 0
    /\ last = NoCall
    /\ strategy = "DirectTranslationStrategy"
    /\ mongo_users = [u \in UserIds |-> NoDoc]
    /\ clock = 0
    /\ batch_size = MaxBatchSize
    /\ after_date = NoDate
    /\ offset = 0
    /\ documents = << >>
    /\ parent_ids_for_deletion = << >>
    /\ edits = 0
    /\ runs = 0
    /\ hist = NoHist
    /\ DetailsIdle
    /\ ResourcesIdle
    /\ CallIdle
    /\ RunnerIdle
    /\ ExportIdle

\* one call of ImportUtils.execute_batch by the export loop
WriterCall ==
    /\ entry = "writer"
    /\ pc = "loop"
    /\ tried < MaxCalls * MaxBatchRows
    /\ \E fault \in 0..Len(all_batch_values) :
         LET r == execute_batch(pg_table, sql_file, summary, all_batch_values,
                                SchemaColumns(table_name), table_name,
                                use_on_conflict, on_conflict_clause, fault)
         IN /\ pg_table' = r.table
            /\ sql_file' = r.file
            /\ summary' = r.stats
            /\ tried' = tried + Len(all_batch_values)
            /\ last' = CallRecord(all_batch_values,
                                  ConflictClause(use_on_conflict, on_conflict_clause),
                                  fault, pg_table, summary, r)
            /\ pc' = IF r.raised THEN "aborted" ELSE "loop"
    /\ UNCHANGED <<configVars, sourceVars, loopVars, use_on_conflict,
                   on_conflict_clause, all_batch_values>>

\* the end of ImportStrategy.export_data: in deferred mode the accumulated
\* file is executed and removed
WriterFinish ==
    /\ entry = "writer"
    /\ pc = "loop"
    /\ \E statements \in {split_statements(sql_file)} :
       \E r \in {execute_sql_file(pg_table, summary, statements, 0, 0)} :
       IF ~DIRECT_IMPORT /\ sql_file # << >>
       THEN /\ pg_table' = r.table
            /\ summary' = r.stats
            /\ returned' = [fn |-> "execute_sql_file", statements |-> statements,
                            before |-> pg_table, stats_before |-> summary,
                            value |-> r.ret]
       ELSE /\ UNCHANGED <<pg_table, summary>>
            /\ returned' = IF DIRECT_IMPORT
                           THEN returned
                           ELSE [fn |-> "execute_sql_file", statements |-> << >>,
                                 before |-> pg_table, stats_before |-> summary,
                                 value |-> 0]
    /\ sql_file' = << >>
    /\ pc' = "done"
    /\ UNCHANGED <<entry, DIRECT_IMPORT, IMPORT_BY_BATCH, table_name, pg_users,
                   pg_events, strategy, batch_size, runnerVars, mongo_userquizzs,
                   detailVars, call, resourceVars, sourceVars, loopVars, use_on_conflict,
                   on_conflict_clause, all_batch_values, tried, last>>

NextWriter == WriterCall \/ WriterFinish

SpecWriter == InitWriter /\ [][NextWriter]_vars

(***************************************************************************)
(* SpecMigration: transfert_data.py on one table, run after run, while the *)
(* source takes writes between the runs                                    *)
(***************************************************************************)
InitialSource ==
    [u \in UserIds |-> IF u = "u1" THEN Doc("a", <<"e1", "e2">>, 0, 0) ELSE NoDoc]

InitMigration ==
    /\ entry = "transfert_data"
    /\ pc = "idle"
    /\ DIRECT_IMPORT = TRUE
    /\ IMPORT_BY_BATCH \in BOOLEAN
    /\ strategy \in Strategies
    /\ table_name = TableOf(strategy)
    /\ pg_table = {}
    /\ pg_users = UserIds
    /\ pg_events = {"e1"}
    /\ summary = ImportSummaryInit
    /\ sql_file = << >>
    /\ use_on_conflict = FALSE
    /\ on_conflict_clause = ""
    /\ all_batch_values = << >>
    /\ tried = 0
    /\ last = NoCall
    /\ mongo_users = InitialSource
    /\ clock = 0
    /\ batch_size \in 1..MaxBatchSize
    /\ after_date = NoDate
    /\ offset = 0
    /\ documents = << >>
    /\ parent_ids_for_deletion = << >>
    /\ edits = 0
    /\ runs = 0
    /\ hist = NoHist
    /\ DetailsIdle
    /\ ResourcesIdle
    /\ CallIdle
    /\ RunnerIdle
    /\ ExportIdle

\* the application inserts a user document, stamped with the current time
\* or a later one
SourceCreate ==
    /\ entry = "transfert_data"
    /\ pc = "idle"
    /\ edits < MaxEdits
    /\ \E u \in UserIds, t \in {clock, clock + 1}, stamped \in BOOLEAN :
         /\ t <= MaxTime
         /\ mongo_users[u] = NoDoc
         /\ mongo_users' = [mongo_users EXCEPT
                ![u] = Doc("b", <<"e1">>, t, IF stamped THEN t ELSE NoDate)]
         /\ clock' = t
         /\ hist' = [hist EXCEPT !.changed = TRUE, !.news = Append(@, u)]
    /\ edits' = edits + 1
    /\ UNCHANGED <<configVars, pc, pg_table, summary, sql_file, use_on_conflict,
                   on_conflict_clause, all_batch_values, tried, last,
                   after_date, offset, documents, parent_ids_for_deletion, runs>>

\* the application rewrites a user document and stamps its update_date
\* with the current time or a later one
SourceUpdate ==
    /\ entry = "transfert_data"
    /\ pc = "idle"
    /\ edits < MaxEdits
    /\ \E u \in UserIds, ev \in Arrays, t \in {clock, clock + 1} :
         /\ t <= MaxTime
         /\ mongo_users[u] # NoDoc
         /\ mongo_users' = [mongo_users EXCEPT
                ![u] = Doc("c", ev, mongo_users[u].creation_date, t)]
         /\ clock' = t
         /\ hist' = [hist EXCEPT !.changed = TRUE, !.updates = @ + 1,
                                  !.rejected = @ \ {u}]
    /\ edits' = edits + 1
    /\ UNCHANGED <<configVars, pc, pg_table, summary, sql_file, use_on_conflict,
                   on_conflict_clause, all_batch_values, tried, last,
                   after_date, offset, documents, parent_ids_for_deletion, runs>>

\* steps 1 and 2 of the migration loop: the watermark of the table, then
\* the count of the documents to process; none skips the table
Step1 ==
    /\ entry = "transfert_data"
    /\ pc = "idle"
    /\ runs < MaxRuns
    /\ \E w \in {get_last_insert_date(table_name, pg_table)} :
       \E started \in {[RunStart(hist) EXCEPT
                          !.selected = Matching(strategy, Collection, w)]} :
       LET total_documents == count_total_documents(strategy, Collection, w)
       IN /\ after_date' = w
          /\ IF total_documents = 0
             THEN pc' = "idle" /\ hist' = RunEnd(started, pg_table, TRUE)
             ELSE pc' = "fetch" /\ hist' = started
    /\ moments_details_batch_cache' =
          IF strategy = "UsersLogbooksMomentsStrategy"
          THEN << >> ELSE moments_details_batch_cache
    /\ runs' = runs + 1
    /\ offset' = 0
    /\ summary' = ImportSummaryInit
    /\ tried' = 0
    /\ last' = NoCall
    /\ UNCHANGED <<configFrame, pg_details, sourceVars, pg_table, sql_file,
                   use_on_conflict, on_conflict_clause, all_batch_values, documents,
                   parent_ids_for_deletion>>

\* step 3 and the DELETE of step 4: fetch a batch, transform it (the
\* extraction of a moment adds its details to the cache), delete the rows
\* of its parents and commit; a DELETE that fails is rolled back and passed
\* over
Step3 ==
    /\ entry = "transfert_data"
    /\ pc = "fetch"
    /\ \E docs \in {get_documents(strategy, Collection, after_date, offset, batch_size)} :
       \E rows \in {Transform(strategy, Collection, docs)} :
       LET ids == IF IsDeleteAndInsert(strategy) THEN docs ELSE << >>
       IN /\ documents' = docs
          /\ IF docs = << >>
             THEN /\ pc' = "idle"
                  /\ hist' = RunEnd(hist, pg_table, hist.clean)
                  /\ UNCHANGED <<pg_table, offset, all_batch_values,
                                 parent_ids_for_deletion>>
             ELSE /\ all_batch_values' = rows
                  /\ parent_ids_for_deletion' = ids
                  /\ IF rows = << >>
                     THEN /\ pc' = "fetch"
                          /\ offset' = offset + batch_size
                          /\ UNCHANGED <<pg_table, hist>>
                     ELSE /\ pc' = "insert"
                          /\ UNCHANGED offset
                          /\ IF IsDeleteAndInsert(strategy) /\ ids # << >>
                             THEN \E failure \in {"none", "execute", "commit"} :
                                  \E del \in {delete_existing_relationships(
                                                 pg_table, ids, failure)} :
                                    /\ pg_table' = del.table
                                    /\ hist' = [hist EXCEPT
                                                  !.phase = "deleted",
                                                  !.before = pg_table,
                                                  !.delete_raised = failure # "none",
                                                  !.clean = @ /\ failure = "none",
                                                  !.rollback = del.rollback,
                                                  !.cursor_closed = del.cursor_closed,
                                                  !.produced = @ \o Produced(
                                                      strategy, Collection, docs)]
                             ELSE /\ UNCHANGED pg_table
                                  /\ hist' = [hist EXCEPT
                                                !.phase = "transformed",
                                                !.before = pg_table,
                                                !.delete_raised = FALSE,
                                                !.rollback = FALSE,
                                                !.cursor_closed = FALSE,
                                                !.produced = @ \o Produced(
                                                    strategy, Collection, docs)]
          /\ moments_details_batch_cache' =
                moments_details_batch_cache \o CachedBy(strategy, Collection, docs)
    /\ UNCHANGED <<configFrame, pg_details, sourceVars, summary, sql_file,
                   use_on_conflict, on_conflict_clause, tried, last, after_date, runs>>

\* the documents of the batch a row of which is not in the table after the
\* INSERT
Refused(tbl) ==
    {documents[i] : i \in {j \in 1..Len(documents) :
        \E row \in Range(Transform(strategy, Collection, <<documents[j]>>)) :
            row \notin tbl}}

\* the INSERT of step 4: execute_batch, then the end of the loop body; an
\* exception that escapes execute_batch ends the program
Step4 ==
    /\ entry = "transfert_data"
    /\ pc = "insert"
    /\ \E fault \in 0..Len(all_batch_values) :
         LET use == get_use_on_conflict(strategy)
             clause == IF use THEN get_on_conflict_clause(strategy, table_name) ELSE ""
         IN \E r \in {execute_batch(pg_table, sql_file, summary, all_batch_values,
                                    BatchColumns(strategy, Collection, documents),
                                    table_name, use, clause, fault)} :
            /\ use_on_conflict' = use
            /\ on_conflict_clause' = clause
            /\ pg_table' = r.table
            /\ sql_file' = r.file
            /\ summary' = r.stats
            /\ tried' = tried + Len(all_batch_values)
            /\ last' = CallRecord(all_batch_values, ConflictClause(use, clause),
                                  fault, pg_table, summary, r)
            /\ IF r.raised
               THEN /\ pc' = "idle"
                    /\ UNCHANGED offset
                    /\ hist' = RunEnd([hist EXCEPT !.phase = "raised", !.clean = FALSE],
                                      r.table, FALSE)
               ELSE /\ offset' = offset + batch_size
                    /\ \E done \in {[hist EXCEPT
                                        !.phase = "inserted",
                                        !.rejected = @ \cup Refused(r.table)]} :
                       IF Len(documents) < batch_size
                       THEN /\ pc' = "idle"
                            /\ hist' = RunEnd(done, r.table, hist.clean)
                       ELSE /\ pc' = "fetch"
                            /\ hist' = done
    /\ UNCHANGED <<configVars, sourceVars, all_batch_values, after_date, documents,
                   parent_ids_for_deletion, runs>>

\* the operator interrupts the program between the DELETE and the INSERT of
\* a batch
Interrupt ==
    /\ entry = "transfert_data"
    /\ pc = "insert"
    /\ pc' = "idle"
    /\ hist' = RunEnd([hist EXCEPT !.phase = "interrupted", !.clean = FALSE],
                      pg_table, FALSE)
    /\ UNCHANGED <<configVars, sourceVars, pg_table, summary, sql_file,
                   use_on_conflict, on_conflict_clause, all_batch_values, tried, last,
                   after_date, offset, documents, parent_ids_for_deletion, runs>>

NextMigration ==
    \/ SourceCreate
    \/ SourceUpdate
    \/ Step1
    \/ Step3
    \/ Step4
    \/ Interrupt

SpecMigration == InitMigration /\ [][NextMigration]_vars

(***************************************************************************)
(* SpecRunner: run_migration, from the reconciler to the last table of the *)
(* registry.  The rows of the table users and its collection are those of  *)
(* the model; the other tables start empty and their collections hold some *)
(* number of documents.                                                    *)
(***************************************************************************)
\* the tables TRUNCATE TABLE <t> CASCADE empties: t and, transitively, the
\* tables whose foreign keys reference one of them
RECURSIVE Reaches(_, _)
Reaches(x, t) == t \in References(x) \/ \E y \in References(x) : Reaches(y, t)

Cascade(t) == {t} \cup {x \in TableNames : Reaches(x, t)}

\* a truncation that does not ask for force_reimport
truncate_table_WithoutForce(t, force, truncate, failed) ==
    IF truncate /\ ~failed THEN Cascade(t) ELSE {}

\* the tables TRUNCATE TABLE <t> CASCADE empties at the start of a table:
\* the statement is issued under force_reimport only, and one that fails
\* is rolled back and passed over
truncate_table(t, force, truncate, failed) ==
    IF force /\ truncate /\ ~failed THEN Cascade(t) ELSE {}

RunnerSources ==
    {InitialSource} \cup
    {[InitialSource EXCEPT !["u2"] = Doc("b", << >>, c, NoDate)] : c \in 0..MaxTime}

RunnerTargets == {{}} \cup {{<<"a", "u1", 0, d>>} : d \in 0..MaxTime}

\* the table users as the run finds it: missing, as the registry has it,
\* short of a column, with a column the registry does not have, or with a
\* column of another type than the registry's
RunnerCatalogs ==
    {[UpToDate EXCEPT !["users"] = NoTable], UpToDate} \cup
    {[UpToDate EXCEPT !["users"].columns = @ \ {c},
                      !["users"].foreign_keys = @ \ {c}] : c \in {"role", "company_id"}}
    \cup {[UpToDate EXCEPT !["users"].columns = (@ \ {"role"}) \cup {"legacy"}],
          [UpToDate EXCEPT !["users"].columns = @ \ {"role"},
                           !["users"].retyped = {"email"}]}

\* the tables whose schema may set force_reimport and
\* truncate_before_import
Flagged == {"users"}

InitRunner ==
    /\ entry = "run_migration"
    /\ pc = "setup"
    /\ DIRECT_IMPORT = TRUE
    /\ IMPORT_BY_BATCH = TRUE
    /\ strategy = "DirectTranslationStrategy"
    /\ table_name = "users"
    /\ pg_catalog \in RunnerCatalogs
    /\ pg_table \in (IF pg_catalog["users"] = NoTable THEN {{}} ELSE RunnerTargets)
    /\ pg_users = UserIds
    /\ pg_events = {"e1"}
    /\ summary = ImportSummaryInit
    /\ sql_file = << >>
    /\ use_on_conflict = FALSE
    /\ on_conflict_clause = ""
    /\ all_batch_values = << >>
    /\ tried = 0
    /\ last = NoCall
    /\ mongo_users \in RunnerSources
    /\ clock = 0
    \* the runner never passes a batch size: export_table_data keeps its default
    /\ batch_size = MaxBatchSize
    /\ after_date = NoDate
    /\ offset = 0
    /\ documents = << >>
    /\ parent_ids_for_deletion = << >>
    /\ edits = 0
    /\ runs = 0
    /\ hist = NoHist
    /\ DetailsIdle
    /\ ResourcesIdle
    /\ CallIdle
    /\ GLOBAL_DATE_THRESHOLD \in {Unset, Invalid} \cup 0..MaxTime
    /\ global_threshold = NoDate
    /\ force_reimport \in SUBSET Flagged
    /\ truncate_before_import \in SUBSET Flagged
    /\ all_statements = << >>
    /\ all_errors = << >>
    /\ response = << >>
    /\ executed = << >>
    /\ sorted_tables = << >>
    /\ table_index = 0
    /\ remaining = 0
    /\ rlog = NoLog
    /\ ExportIdle
    \* a run that meets a table to reconcile is a plain incremental run
    /\ \/ pg_catalog = UpToDate
       \/ /\ GLOBAL_DATE_THRESHOLD = Unset
          /\ force_reimport = {}
          /\ truncate_before_import = {}
          /\ mongo_users = InitialSource

modelVars == <<DIRECT_IMPORT, IMPORT_BY_BATCH, table_name, pg_users, strategy,
               batch_size, mongo_users, clock, edits, runs, hist,
               parent_ids_for_deletion, use_on_conflict, on_conflict_clause,
               exportVars>>
runnerConfig == <<GLOBAL_DATE_THRESHOLD, force_reimport, truncate_before_import>>

\* setup_tables, then parse_global_date_threshold: the missing tables are
\* created and committed, the tables that lack columns go to
\* prompt_and_apply_updates, and the run goes on with the connection it
\* is handed back
RunnerSetup ==
    /\ entry = "run_migration"
    /\ pc = "setup"
    /\ LET created == [t \in TableNames |->
                          create_table(TABLE_SCHEMAS(t), pg_catalog[t])]
           all_updates == AllUpdates(pg_catalog)
           plan == Plan(all_updates, created, pg_table, pg_events)
           asked == plan.errors = << >> /\ plan.statements # << >>
       IN \E answer \in (IF asked THEN Answers ELSE {<< >>}),
             failing \in (IF asked THEN 0..Len(plan.statements) ELSE {0}) :
            LET r == IF all_updates = << >>
                     THEN [catalog |-> created, executed |-> << >>]
                     ELSE prompt_and_apply_updates(created, plan, answer, failing)
            IN /\ pg_catalog' = r.catalog
               /\ executed' = r.executed
               /\ all_statements' = plan.statements
               /\ all_errors' = plan.errors
               /\ response' = answer
               /\ rlog' = [rlog EXCEPT
                             !.catalog_initial = pg_catalog,
                             !.created = {t \in TableNames : pg_catalog[t] = NoTable},
                             !.catalog_before = created]
    /\ global_threshold' = parse_global_date_threshold(GLOBAL_DATE_THRESHOLD)
    /\ sorted_tables' = SortedRegistry
    /\ table_index' = 1
    /\ pc' = "tables"
    /\ UNCHANGED <<entry, modelVars, runnerConfig, pg_table, pg_events, summary,
                   sql_file, all_batch_values, tried, last, after_date, offset,
                   documents, remaining>>

\* the tables whose query of the last date the server may answer with an
\* error of its own; on an aborted transaction the query of any table fails
QueryErrors == {"events", "users", "user_events"}

\* get_last_insert_date around its query: the value the query gives, and
\* None from the except clause when the query raised psycopg2.Error.  The
\* except clause prints and returns; it does not roll back
get_last_insert_date_except(raised, value) == IF raised THEN NoDate ELSE value

\* the head of the loop body for one table: the flags, the TRUNCATE, the
\* last date of the table and the threshold, then export_table_data up to
\* the count of the documents
RunnerTable ==
    /\ entry = "run_migration"
    /\ pc = "tables"
    /\ table_index <= Len(sorted_tables)
    /\ LET t == sorted_tables[table_index]
           force == t \in force_reimport
           truncate == force /\ t \in truncate_before_import
       IN \E truncate_failed \in (IF ~truncate THEN {FALSE}
                                   ELSE IF rlog.failed_transaction THEN {TRUE}
                                   ELSE BOOLEAN),
             query_failed \in (IF force THEN {FALSE}
                                ELSE IF rlog.failed_transaction THEN {TRUE}
                                ELSE IF t \in QueryErrors THEN BOOLEAN
                                ELSE {FALSE}),
             n \in (IF t = "users" THEN {0} ELSE 0..MaxDocs) :
            LET wiped == truncate_table(t, force, t \in truncate_before_import,
                                        truncate_failed)
                users_rows == IF "users" \in wiped THEN {} ELSE pg_table
                table_last_date == get_last_insert_date_except(query_failed,
                                       IF t = "users"
                                       THEN get_last_insert_date("users", users_rows)
                                       ELSE NoDate)
                date == StartDate(force, table_last_date, global_threshold)
            IN /\ pg_table' = users_rows
               /\ pg_events' = IF "events" \in wiped THEN {} ELSE pg_events
               /\ after_date' = date
               /\ remaining' = IF t = "users"
                               THEN count_total_documents(strategy, mongo_users, date)
                               ELSE n
               /\ rlog' = [rlog EXCEPT
                             !.watermark_read = IF force THEN @ ELSE @ \cup {t},
                             !.truncated = @ \cup wiped,
                             !.table_last_date = IF force THEN NoDate
                                                 ELSE table_last_date,
                             !.query_failed = IF query_failed THEN @ \cup {t} ELSE @,
                             !.failed_transaction =
                                 IF truncate THEN FALSE ELSE @ \/ query_failed]
    /\ summary' = ImportSummaryInit
    /\ offset' = 0
    /\ tried' = 0
    /\ last' = NoCall
    /\ pc' = "batch"
    /\ UNCHANGED <<entry, modelVars, runnerConfig, global_threshold, pg_catalog,
                   all_statements, all_errors, response, executed,
                   sorted_tables, table_index, sql_file, all_batch_values,
                   documents>>

\* a run that takes the next table after an exception of the export of the
\* table at index i
export_raised_NextTable(i) ==
    [pc |-> IF i >= Len(sorted_tables) THEN "done" ELSE "tables", table_index |-> i + 1]

\* an exception leaves export_table_data: run_migration has no except
\* clause, the exception goes through its finally and out of it
export_raised(i) == [pc |-> "aborted", table_index |-> i]

\* where the run stands once the export of the table at index i is over
AfterTable(i) == IF i >= Len(sorted_tables) THEN "done" ELSE "tables"

\* one turn of the loop of ImportStrategy.export_data up to execute_batch:
\* the fetch and the transform.  For the collections the model holds no
\* document of, the whole turn: an exception leaves run_migration through
\* its finally
RunnerBatch ==
    /\ entry = "run_migration"
    /\ pc = "batch"
    /\ LET t == sorted_tables[table_index] IN
       IF t = "users"
       THEN LET docs == get_documents(strategy, mongo_users, after_date, offset,
                                      batch_size)
                rows == Transform(strategy, mongo_users, docs)
                over == Len(docs) < batch_size
            IN /\ documents' = docs
               /\ all_batch_values' = rows
               /\ rlog' = [rlog EXCEPT
                             !.fetched = @ \cup {t},
                             !.completed = IF rows = << >> /\ over
                                           THEN @ \cup {t} ELSE @]
               /\ offset' = IF rows = << >> /\ docs # << >>
                            THEN offset + batch_size ELSE offset
               /\ pc' = IF rows # << >> THEN "insert"
                        ELSE IF over THEN AfterTable(table_index) ELSE "batch"
               /\ table_index' = IF rows = << >> /\ over
                                 THEN table_index + 1 ELSE table_index
               /\ UNCHANGED remaining
       ELSE LET fetched == Min(remaining, batch_size)
                over == fetched < batch_size
            IN \E raised \in (IF fetched = 0 THEN {FALSE}
                              ELSE IF rlog.failed_transaction THEN {TRUE}
                              ELSE BOOLEAN) :
                 /\ remaining' = remaining - fetched
                 /\ rlog' = [rlog EXCEPT
                               !.fetched = @ \cup {t},
                               !.written = @ \/ fetched > 0,
                               !.completed = IF over /\ ~raised
                                             THEN @ \cup {t} ELSE @,
                               !.raised = IF raised THEN @ \cup {t} ELSE @,
                               !.refused = IF rlog.failed_transaction /\ raised
                                           THEN @ \cup {t} ELSE @,
                               !.failed_transaction = @ /\ ~raised]
                 /\ offset' = IF raised \/ fetched = 0
                              THEN offset ELSE offset + batch_size
                 /\ pc' = IF raised THEN export_raised(table_index).pc
                          ELSE IF over THEN AfterTable(table_index) ELSE "batch"
                 /\ table_index' = IF raised THEN export_raised(table_index).table_index
                                   ELSE IF over THEN table_index + 1 ELSE table_index
                 /\ UNCHANGED <<documents, all_batch_values>>
    /\ UNCHANGED <<entry, modelVars, runnerConfig, global_threshold, pg_catalog,
                   all_statements, all_errors, response, executed,
                   sorted_tables, pg_events, after_date, pg_table, sql_file,
                   summary, tried, last>>

\* execute_direct_sql on a connection whose transaction is aborted: its
\* first statement, SAVEPOINT, raises an error that is no IntegrityError;
\* the outer except clause rolls back and raises again
InFailedSqlTransaction(tbl, file, stats) ==
    [table |-> tbl, file |-> file, stats |-> stats, ret |-> 0, raised |-> TRUE]

\* the rest of the turn for the table users: execute_batch, then the end of
\* the loop body
RunnerInsert ==
    /\ entry = "run_migration"
    /\ pc = "insert"
    /\ \E fault \in (IF rlog.failed_transaction THEN {0}
                     ELSE 0..Len(all_batch_values)) :
       \E t \in {sorted_tables[table_index]} :
       \E use \in {get_use_on_conflict(strategy)},
          clause \in {get_on_conflict_clause(strategy, t)} :
       \E r \in {IF rlog.failed_transaction
                 THEN InFailedSqlTransaction(pg_table, sql_file, summary)
                 ELSE execute_batch(pg_table, sql_file, summary, all_batch_values,
                                    SchemaColumns(t), t, use, clause, fault)} :
         LET over == Len(documents) < batch_size
         IN /\ pg_table' = r.table
            /\ sql_file' = r.file
            /\ summary' = r.stats
            /\ tried' = tried + Len(all_batch_values)
            /\ last' = CallRecord(all_batch_values, ConflictClause(use, clause),
                                  fault, pg_table, summary, r)
            /\ IF r.raised
               THEN /\ pc' = export_raised(table_index).pc
                    /\ table_index' = export_raised(table_index).table_index
                    /\ rlog' = [rlog EXCEPT
                                  !.written = TRUE, !.raised = @ \cup {t},
                                  !.refused = IF rlog.failed_transaction
                                              THEN @ \cup {t} ELSE @,
                                  !.failed_transaction = FALSE]
                    /\ UNCHANGED offset
               ELSE /\ offset' = offset + batch_size
                    /\ pc' = IF over THEN AfterTable(table_index) ELSE "batch"
                    /\ table_index' = IF over THEN table_index + 1 ELSE table_index
                    /\ rlog' = [rlog EXCEPT
                                  !.written = TRUE,
                                  !.completed = IF over THEN @ \cup {t} ELSE @]
    /\ UNCHANGED <<entry, modelVars, runnerConfig, global_threshold, pg_catalog,
                   all_statements, all_errors, response, executed,
                   sorted_tables, pg_events, after_date, remaining, documents,
                   all_batch_values>>

NextRunner ==
    \/ RunnerSetup
    \/ RunnerTable
    \/ RunnerBatch
    \/ RunnerInsert

SpecRunner == InitRunner /\ [][NextRunner]_vars

(***************************************************************************)
(* SpecExport: the migration loop on one table of the registry, for each   *)
(* form extract_data_for_sql gives its values in: one row, a list of rows, *)
(* None.  The source is any collection of the bounds and does not change.  *)
(***************************************************************************)
ExportDates == {<<0, 0>>, <<1, NoDate>>, <<MaxTime, MaxTime>>}

ExportUsers ==
    [UserIds -> {NoDoc} \cup
                {Doc("a", ev, d[1], d[2]) : ev \in Arrays, d \in ExportDates}]

ExportQuizzs ==
    [QuizzIds -> {NoDoc} \cup
                 {Quizz(q, a, l, d[1], d[2]) :
                    q \in {<< >>, <<"k1">>}, a \in BOOLEAN, l \in {NULL, "l1"},
                    d \in ExportDates}]

InitExport ==
    /\ entry = "transfert_data"
    /\ pc = "idle"
    /\ DIRECT_IMPORT = TRUE
    /\ IMPORT_BY_BATCH = TRUE
    /\ strategy \in ExportStrategies
    /\ table_name = TableOf(strategy)
    /\ pg_table = {}
    /\ pg_users = UserIds
    /\ pg_events = {"e1"}
    /\ summary = ImportSummaryInit
    /\ sql_file = << >>
    /\ use_on_conflict = FALSE
    /\ on_conflict_clause = ""
    /\ all_batch_values = << >>
    /\ tried = 0
    /\ last = NoCall
    /\ IF strategy = "UsersLogbooksMomentsStrategy"
       THEN /\ mongo_userquizzs \in ExportQuizzs
            /\ mongo_users = [u \in UserIds |-> NoDoc]
       ELSE /\ mongo_users \in ExportUsers
            /\ ExportIdle
    /\ clock = 0
    /\ batch_size \in 1..MaxBatchSize
    /\ after_date = NoDate
    /\ offset = 0
    /\ documents = << >>
    /\ parent_ids_for_deletion = << >>
    /\ edits = 0
    /\ runs = 0
    /\ hist = NoHist
    /\ DetailsIdle
    /\ ResourcesIdle
    /\ CallIdle
    /\ RunnerIdle

NextExport ==
    \/ Step1
    \/ Step3
    \/ Step4
    \/ Interrupt

SpecExport == InitExport /\ [][NextExport]_vars

(***************************************************************************)
(* SpecCalls: one call of get_on_conflict_clause on a schema and a list of *)
(* insert columns, or of delete_by_parent_ids on a table                   *)
(***************************************************************************)
\* a schema whose primary key is the column code
Renamed(schema) ==
    [schema EXCEPT !.columns =
        [i \in 1..Len(@) |-> IF @[i].name = "id" THEN [@[i] EXCEPT !.name = "code"]
                             ELSE @[i]]]

\* a schema without a primary key
Keyless(schema) ==
    [schema EXCEPT !.columns = [i \in 1..Len(@) |-> [@[i] EXCEPT !.primary_key = FALSE]]]

\* a schema without a unique constraint
WithoutUnique(schema) == [schema EXCEPT !.unique_constraints = << >>]

\* the schemas of the registry, and what a declaration makes of them with
\* another key or none
SchemaInputs ==
    UNION {{TABLE_SCHEMAS(t), Renamed(TABLE_SCHEMAS(t)), Keyless(TABLE_SCHEMAS(t)),
            WithoutUnique(Keyless(TABLE_SCHEMAS(t)))} : t \in TableNames}

\* None, the empty list, the heads and the tails of the columns of the
\* schema, and a list in another order with a column the schema lacks
ColumnLists(schema) ==
    LET n == Names(schema.columns) IN
    {NoColumns, SomeColumns(<< >>), SomeColumns(<<n[Len(n)], "extra", n[1]>>)}
    \cup {SomeColumns(SubSeq(n, 1, k)) : k \in 1..Len(n)}
    \cup {SomeColumns(SubSeq(n, k, Len(n))) : k \in 1..Len(n)}

ConflictCalls ==
    UNION {{[fn |-> "get_on_conflict_clause", schema |-> schema, columns |-> c] :
              c \in ColumnLists(schema)} : schema \in SchemaInputs}

DeleteRows == {<<"u1", "e1", 0, 0>>, <<"u1", "e2", 0, 0>>, <<"u2", "e1", 0, 0>>}

DeleteCalls ==
    {[fn |-> "delete_by_parent_ids", table_name |-> "user_events",
      column_name |-> c, parent_ids |-> ids] :
        c \in {"user_id", "event_id"},
        ids \in {<< >>, <<"u1">>, <<"u2">>, <<"u1", "u2">>, <<"e1">>, <<"u1", "u1">>}}

InitCalls ==
    /\ entry = "call"
    /\ pc = "called"
    /\ call \in ConflictCalls \cup DeleteCalls
    /\ returned = NoCallYet
    /\ pg_table \in (IF call.fn = "delete_by_parent_ids" THEN SUBSET DeleteRows ELSE {{}})
    /\ table_name = IF call.fn = "delete_by_parent_ids" THEN call.table_name
                    ELSE call.schema.name
    /\ DIRECT_IMPORT = TRUE
    /\ IMPORT_BY_BATCH = TRUE
    /\ strategy = "DirectTranslationStrategy"
    /\ pg_users = UserIds
    /\ pg_events = EventIds
    /\ summary = ImportSummaryInit
    /\ sql_file = << >>
    /\ use_on_conflict = FALSE
    /\ on_conflict_clause = ""
    /\ all_batch_values = << >>
    /\ tried = 0
    /\ last = NoCall
    /\ mongo_users = [u \in UserIds |-> NoDoc]
    /\ mongo_userquizzs = [q \in QuizzIds |-> NoDoc]
    /\ clock = 0
    /\ batch_size = 1
    /\ after_date = NoDate
    /\ offset = 0
    /\ documents = << >>
    /\ parent_ids_for_deletion = << >>
    /\ edits = 0
    /\ runs = 0
    /\ hist = NoHist
    /\ DetailsIdle
    /\ ResourcesIdle
    /\ RunnerIdle

callFrame == <<entry, DIRECT_IMPORT, IMPORT_BY_BATCH, table_name, pg_users, pg_events,
               strategy, batch_size, runnerVars, mongo_userquizzs, call, resourceVars,
               sourceVars, detailVars,
               loopVars, summary, sql_file, use_on_conflict, on_conflict_clause,
               all_batch_values, tried, last>>

GetOnConflictClause ==
    /\ entry = "call"
    /\ pc = "called"
    /\ call.fn = "get_on_conflict_clause"
    /\ returned' = [fn |-> call.fn,
                    value |-> TableSchema_get_on_conflict_clause(call.schema,
                                                                 call.columns)]
    /\ pc' = "returned"
    /\ UNCHANGED <<callFrame, pg_table>>

DeleteByParentIds ==
    /\ entry = "call"
    /\ pc = "called"
    /\ call.fn = "delete_by_parent_ids"
    /\ \E failure \in {"none", "execute", "commit"} :
         LET r == delete_by_parent_ids(pg_table, call.table_name, call.column_name,
                                       call.parent_ids, failure)
         IN /\ pg_table' = r.table
            /\ returned' = [fn |-> call.fn, value |-> r.ret, raised |-> r.raised,
                            statements |-> r.statements, before |-> pg_table,
                            failure |-> failure]
    /\ pc' = "returned"
    /\ UNCHANGED callFrame

NextCalls ==
    \/ GetOnConflictClause
    \/ DeleteByParentIds

SpecCalls == InitCalls /\ [][NextCalls]_vars

(***************************************************************************)
(* SpecResources: the connections and the SSH tunnels of run_migration,    *)
(* from connect_postgres to the end of its finally clause.  A call that    *)
(* can raise either returns or raises; the operator may interrupt the try  *)
(* body between any two of its steps.                                      *)
(***************************************************************************)
\* MongoConnection.close: the client if there is one, then the tunnel if
\* there is one
MongoConnection_close(client, tunnel) ==
    [client |-> IF client = "open" THEN "None" ELSE client,
     tunnel |-> IF tunnel # "None" THEN "stopped" ELSE tunnel]

\* close_postgres_connection: close_all_connections of the instance the
\* global names, which stops the tunnel of that instance
close_postgres_connection(instance, tunnel) ==
    [instance |-> "None",
     tunnel |-> IF instance # "None" /\ tunnel # "None" THEN "stopped" ELSE tunnel]

InitResources ==
    /\ entry = "resources"
    /\ pc = "get_connection_params"
    /\ TRANSFER_DESTINATION \in {"local", "remote"}
    /\ TRANSFER_SOURCE \in {"local", "remote"}
    /\ conn = "unbound"
    /\ pg_connection_instance = "None"
    /\ ssh_tunnel = "None"
    /\ mongo_client = "None"
    /\ mongo_ssh_tunnel = "None"
    /\ exit = "none"
    /\ DIRECT_IMPORT = TRUE
    /\ IMPORT_BY_BATCH = TRUE
    /\ strategy = "DirectTranslationStrategy"
    /\ table_name = "users"
    /\ pg_table = {}
    /\ pg_users = {}
    /\ pg_events = {}
    /\ summary = ImportSummaryInit
    /\ sql_file = << >>
    /\ use_on_conflict = FALSE
    /\ on_conflict_clause = ""
    /\ all_batch_values = << >>
    /\ tried = 0
    /\ last = NoCall
    /\ mongo_users = [u \in UserIds |-> NoDoc]
    /\ clock = 0
    /\ batch_size = MaxBatchSize
    /\ after_date = NoDate
    /\ offset = 0
    /\ documents = << >>
    /\ parent_ids_for_deletion = << >>
    /\ edits = 0
    /\ runs = 0
    /\ hist = NoHist
    /\ DetailsIdle
    /\ CallIdle
    /\ ExportIdle
    /\ GLOBAL_DATE_THRESHOLD = Unset
    /\ global_threshold = NoDate
    /\ force_reimport = {}
    /\ truncate_before_import = {}
    /\ pg_catalog = UpToDate
    /\ all_statements = << >>
    /\ all_errors = << >>
    /\ response = << >>
    /\ executed = << >>
    /\ sorted_tables = SortedRegistry
    /\ table_index = 0
    /\ remaining = 0
    /\ rlog = NoLog

resourceFrame == <<DIRECT_IMPORT, IMPORT_BY_BATCH, table_name, pg_users, pg_events,
                   strategy, batch_size, runnerConfig, global_threshold, pg_catalog,
                   all_statements, all_errors, response, executed, sorted_tables,
                   remaining, rlog, mongo_userquizzs, call, returned, sourceVars,
                   detailVars,
                   loopVars, pg_table, summary, sql_file, use_on_conflict,
                   on_conflict_clause, all_batch_values, tried, last, entry,
                   TRANSFER_DESTINATION, TRANSFER_SOURCE>>

\* the try body is left for the finally clause
Leave(how) == pc' = "finally" /\ exit' = how

\* connect_postgres, first half: PostgresConnection().get_connection_params()
\* raises on a missing setting or starts the tunnel of a remote target
GetConnectionParams ==
    /\ entry = "resources"
    /\ pc = "get_connection_params"
    /\ IF TRANSFER_DESTINATION = "remote"
       THEN \E outcome \in {"ValueError", "start raises", "started"} :
              /\ ssh_tunnel' = CASE outcome = "ValueError" -> "None"
                                 [] outcome = "start raises" -> "created"
                                 [] OTHER -> "started"
              /\ IF outcome = "started"
                 THEN pc' = "store_instance" /\ UNCHANGED exit
                 ELSE Leave("exception")
       ELSE pc' = "store_instance" /\ UNCHANGED <<ssh_tunnel, exit>>
    /\ UNCHANGED <<resourceFrame, table_index, conn, pg_connection_instance,
                   mongo_client, mongo_ssh_tunnel>>

\* connect_postgres: _pg_connection_instance = pg_conn
StoreInstance ==
    /\ entry = "resources"
    /\ pc = "store_instance"
    /\ pg_connection_instance' = "pg_conn"
    /\ pc' = "psycopg2_connect"
    /\ UNCHANGED <<resourceFrame, table_index, conn, ssh_tunnel, mongo_client,
                   mongo_ssh_tunnel, exit>>

\* connect_postgres: return psycopg2.connect(**params), and conn = ...
Psycopg2Connect ==
    /\ entry = "resources"
    /\ pc = "psycopg2_connect"
    /\ \E raised \in BOOLEAN :
         IF raised
         THEN Leave("exception") /\ UNCHANGED conn
         ELSE conn' = "open" /\ pc' = "setup_tables" /\ UNCHANGED exit
    /\ UNCHANGED <<resourceFrame, table_index, pg_connection_instance, ssh_tunnel,
                   mongo_client, mongo_ssh_tunnel>>

\* conn = setup_tables(conn): the connection it was handed, or an exception
\* of the reconciler
SetupTables ==
    /\ entry = "resources"
    /\ pc = "setup_tables"
    /\ \E raised \in BOOLEAN :
         IF raised
         THEN Leave("exception") /\ UNCHANGED table_index
         ELSE pc' = "get_mongo_collection" /\ table_index' = 1 /\ UNCHANGED exit
    /\ UNCHANGED <<resourceFrame, conn, pg_connection_instance, ssh_tunnel,
                   mongo_client, mongo_ssh_tunnel>>

\* get_mongo_collection: MongoConnection.connect on the first call, which
\* stores the tunnel before it starts it and the client once it is built
GetMongoCollection ==
    /\ entry = "resources"
    /\ pc = "get_mongo_collection"
    /\ IF mongo_client = "None"
       THEN \E outcome \in (IF TRANSFER_SOURCE = "remote"
                            THEN {"ValueError", "start raises", "client raises", "connected"}
                            ELSE {"client raises", "connected"}) :
              /\ mongo_ssh_tunnel' =
                    IF TRANSFER_SOURCE = "remote"
                    THEN CASE outcome = "ValueError" -> "None"
                           [] outcome = "start raises" -> "created"
                           [] OTHER -> "started"
                    ELSE "None"
              /\ IF outcome = "connected"
                 THEN /\ mongo_client' = "open"
                      /\ pc' = "export_table_data"
                      /\ UNCHANGED exit
                 ELSE Leave("exception") /\ UNCHANGED mongo_client
       ELSE pc' = "export_table_data" /\ UNCHANGED <<mongo_client, mongo_ssh_tunnel, exit>>
    /\ UNCHANGED <<resourceFrame, table_index, conn, pg_connection_instance, ssh_tunnel>>

\* the rest of the loop body: the flags, the dates and export_table_data,
\* then the next table or the end of the try body
ExportTableData ==
    /\ entry = "resources"
    /\ pc = "export_table_data"
    /\ \E raised \in BOOLEAN :
         IF raised
         THEN Leave("exception") /\ UNCHANGED table_index
         ELSE IF table_index < Len(sorted_tables)
         THEN pc' = "get_mongo_collection" /\ table_index' = table_index + 1
              /\ UNCHANGED exit
         ELSE Leave("normal") /\ UNCHANGED table_index
    /\ UNCHANGED <<resourceFrame, conn, pg_connection_instance, ssh_tunnel,
                   mongo_client, mongo_ssh_tunnel>>

TryBody == {"get_connection_params", "store_instance", "psycopg2_connect",
            "setup_tables", "get_mongo_collection", "export_table_data"}

\* the operator interrupts the program somewhere in the try body
KeyboardInterrupt ==
    /\ entry = "resources"
    /\ pc \in TryBody
    /\ Leave("interrupt")
    /\ UNCHANGED <<resourceFrame, table_index, conn, pg_connection_instance,
                   ssh_tunnel, mongo_client, mongo_ssh_tunnel>>

\* the finally clause of run_migration: conn.close() if conn is bound,
\* MongoConnection().close(), close_postgres_connection()
Finally ==
    /\ entry = "resources"
    /\ pc = "finally"
    /\ conn' = IF conn = "unbound" THEN conn ELSE "closed"
    /\ \E m \in {MongoConnection_close(mongo_client, mongo_ssh_tunnel)} :
         mongo_client' = m.client /\ mongo_ssh_tunnel' = m.tunnel
    /\ \E p \in {close_postgres_connection(pg_connection_instance, ssh_tunnel)} :
         pg_connection_instance' = p.instance /\ ssh_tunnel' = p.tunnel
    /\ pc' = "exited"
    /\ UNCHANGED <<resourceFrame, table_index, exit>>

NextResources ==
    \/ GetConnectionParams
    \/ StoreInstance
    \/ Psycopg2Connect
    \/ SetupTables
    \/ GetMongoCollection
    \/ ExportTableData
    \/ KeyboardInterrupt
    \/ Finally

SpecResources == InitResources /\ [][NextResources]_vars

(***************************************************************************)
(* What the engine does with a batch when every row stands alone: a row in *)
(* error is left out, every other row is applied in order                  *)
(***************************************************************************)
RECURSIVE RowByRow(_, _, _, _)
RowByRow(t, tbl, rows, clause) ==
    IF rows = << >>
    THEN [table |-> tbl, rejected |-> << >>, skipped |-> 0, broken |-> FALSE]
    ELSE LET r == PgInsert(t, tbl, Head(rows), clause)
             rest == RowByRow(t, IF r.error = NoError THEN r.table ELSE tbl,
                              Tail(rows), clause)
         IN [table |-> rest.table,
             rejected |-> IF r.error.class = "IntegrityError"
                          THEN <<r.error.message>> \o rest.rejected
                          ELSE rest.rejected,
             skipped |-> rest.skipped + (IF r.error = NoError /\ r.rowcount = 0 THEN 1 ELSE 0),
             broken |-> rest.broken \/ r.error.class = "Error"]

LastByRow == RowByRow(table_name, last.before, last.rows, last.clause)

\* the last call ran in direct mode and met nothing but integrity errors
DirectCall ==
    /\ entry = "writer"
    /\ last # NoCall
    /\ DIRECT_IMPORT
    /\ last.fault = 0
    /\ ~LastByRow.broken

BadDelta == SumBad(summary[table_name].bad) - SumBad(last.stats_before[table_name].bad)

\* C5 (as stated): given n rows of which k violate an integrity constraint,
\* execute_batch raises nothing, commits exactly the n-k valid rows, returns
\* n-k, records the k rejected rows and the export goes on.
C5_AsStated ==
    DirectCall =>
        LET k == Len(LastByRow.rejected) IN
        /\ ~last.raised
        /\ pc # "aborted"
        /\ last.after = LastByRow.table
        /\ last.ret = last.n - k
        /\ BadDelta = k

\* C5 (amended): as above, except that a batch the engine accepted as a
\* whole under an upsert clause returns the statement rowcount, which also
\* leaves out the rows ON CONFLICT DO NOTHING skipped.
C5_RejectedRowsIsolated ==
    DirectCall =>
        LET k == Len(LastByRow.rejected)
            s == IF IMPORT_BY_BATCH /\ use_on_conflict /\ k = 0
                 THEN LastByRow.skipped ELSE 0
        IN
        /\ ~last.raised
        /\ pc # "aborted"
        /\ last.after = LastByRow.table
        /\ last.ret = last.n - k - s
        /\ BadDelta = k

C5_Witness ==
    /\ DirectCall
    /\ IMPORT_BY_BATCH
    /\ last.n = 2
    /\ Len(LastByRow.rejected) = 1
    /\ last.ret = 1
    /\ Cardinality(last.after) = Cardinality(last.before) + 1

InstanceTotal ==
    LET Total(e) == summary[e].good + summary[e].skipped + SumBad(summary[e].bad)
    IN Total("users") + Total("USERS") + Total("user_events") + Total("USER_EVENTS")

\* C6: at the end of a table's export, good + skipped + the bad counts of
\* the table's ImportSummary add up to the rows handed to execute_batch.
C6_SummaryAddsUpToTried ==
    (entry = "writer" /\ pc = "done") => InstanceTotal = tried

\* what the claim says the reason of a rejected row is
C7_Reason(msg) ==
    IF \E i \in 1..Len(msg) : LowerToken(msg[i]) = "foreign key constraint"
    THEN <<"Foreign key constraint">>
    ELSE IF \E i \in 1..Len(msg) : LowerToken(msg[i]) \in {"null value", "not-null constraint"}
    THEN <<"NULL constraint">>
    ELSE <<"Other integrity error: ">> \o
         [i \in 1..(IF Len(msg) < 100 THEN Len(msg) ELSE 100) |-> msg[i]]

ParentRows(tbl, ids) == {r \in tbl : Get("user_events", r, "user_id") \in Range(ids)}
OtherRows(tbl, ids) == tbl \ ParentRows(tbl, ids)

DeleteAndInsertRun == entry = "transfert_data" /\ IsDeleteAndInsert(strategy)

\* the DELETE and the INSERT of the current batch are both behind
BatchCommitted == DeleteAndInsertRun /\ hist.phase = "inserted"

\* the DELETE of the current batch is behind, its INSERT is not, or failed
BetweenDeleteAndInsert ==
    DeleteAndInsertRun /\ hist.phase \in {"deleted", "raised", "interrupted"}

\* the rows the parents of the batch keep from before the batch
Stale ==
    IF hist.delete_raised
    THEN ParentRows(hist.before, parent_ids_for_deletion)
    ELSE {}

\* the extracted rows the target accepts: no NULL in a NOT NULL column, no
\* key of a row already there, no broken foreign key
Accepted ==
    {r \in Range(all_batch_values) :
        /\ NullColumns("user_events", r) = {}
        /\ \A q \in Stale : RowKey("user_events", q) # RowKey("user_events", r)
        /\ ForeignKeyBroken("user_events", r) = {}}

\* C1 (as stated): once a delete-and-insert batch is committed, the target
\* rows of the batch's parents are exactly the rows extracted for the batch.
C1_AsStated ==
    BatchCommitted =>
        ParentRows(pg_table, parent_ids_for_deletion) = Range(all_batch_values)

\* C1 (amended): once a delete-and-insert batch is committed, the target
\* rows of the batch's parents are exactly the extracted rows the target
\* accepted, together with the rows the parents had before when the DELETE
\* failed and was passed over.
C1_ParentsHoldAcceptedRows ==
    BatchCommitted =>
        ParentRows(pg_table, parent_ids_for_deletion) = Stale \cup Accepted

C1_Witness ==
    /\ BatchCommitted
    /\ ~hist.delete_raised
    /\ ParentRows(hist.before, parent_ids_for_deletion) # {}
    /\ ~(ParentRows(hist.before, parent_ids_for_deletion) \subseteq pg_table)
    /\ Accepted # {}
    /\ Accepted # Range(all_batch_values)
    /\ ParentRows(pg_table, parent_ids_for_deletion) = Accepted

\* C2: after a run, no target row links a parent whose array was modified
\* since the watermark to a child that is no longer in the array, whatever
\* the number of elements left.
C2_RemovedElementsRemoved ==
    (/\ entry = "transfert_data"
     /\ strategy = "UserEventsStrategy"
     /\ pc = "idle"
     /\ runs > 0
     /\ hist.last_clean
     /\ ~hist.changed) =>
        \A u \in UserIds :
            (/\ mongo_users[u] # NoDoc
             /\ after_date # NoDate
             /\ Gte(mongo_users[u].update_date, after_date)) =>
                \A r \in pg_table :
                    Get("user_events", r, "user_id") = u =>
                        Get("user_events", r, "event_id")
                            \in Range(mongo_users[u].registered_events)

\* the rows extracted for one parent by the current batch
ExtractedFor(p) ==
    {r \in Range(all_batch_values) : r # << >> /\ r[1] = p}

\* every extracted row of the batch is one the target accepts
NothingToReject ==
    \A r \in Range(all_batch_values) :
        NullColumns("user_events", r) = {} /\ ForeignKeyBroken("user_events", r) = {}

\* C3 (as stated): in every committed state the rows of each parent of the
\* batch are all the rows it had before the batch or all the rows extracted
\* for it (checked on the batches whose rows the target accepts).
C3_AsStated ==
    (/\ DeleteAndInsertRun
     /\ hist.phase \in {"deleted", "inserted", "raised", "interrupted"}
     /\ NothingToReject) =>
        \A i \in 1..Len(parent_ids_for_deletion) :
            LET p == parent_ids_for_deletion[i] IN
            \/ ParentRows(pg_table, <<p>>) = ParentRows(hist.before, <<p>>)
            \/ ParentRows(pg_table, <<p>>) = ExtractedFor(p)

\* C3 (amended): the DELETE is committed on its own. From that commit until
\* the INSERT commits, and for good when the INSERT raises or the program
\* is interrupted in between, the parents of the batch have no row at all
\* (their old rows, when the DELETE failed).
C3_DeleteCommitsAlone ==
    BetweenDeleteAndInsert =>
        ParentRows(pg_table, parent_ids_for_deletion) = Stale

C3_Witness ==
    /\ DeleteAndInsertRun
    /\ hist.phase = "interrupted"
    /\ pc = "idle"
    /\ ~hist.delete_raised
    /\ ParentRows(hist.before, parent_ids_for_deletion) # {}
    /\ ParentRows(pg_table, parent_ids_for_deletion) = {}

\* C4: a delete-and-insert batch leaves unchanged every target row whose
\* parent is not one of the parents of the batch.
C4_OtherParentsUntouched ==
    (DeleteAndInsertRun /\ hist.phase \in {"deleted", "inserted", "raised", "interrupted"}) =>
        OtherRows(pg_table, parent_ids_for_deletion)
            = OtherRows(hist.before, parent_ids_for_deletion)

C4_Witness ==
    /\ DeleteAndInsertRun
    /\ hist.phase = "deleted"
    /\ ~hist.delete_raised
    /\ OtherRows(hist.before, parent_ids_for_deletion) # {}
    /\ ParentRows(hist.before, parent_ids_for_deletion) # {}
    /\ ParentRows(pg_table, parent_ids_for_deletion) = {}
    /\ OtherRows(pg_table, parent_ids_for_deletion)
         = OtherRows(hist.before, parent_ids_for_deletion)

(***************************************************************************)
(* Runs of SpecMigration                                                   *)
(***************************************************************************)
\* C8: a DirectTranslationStrategy batch is written as an upsert on the
\* primary key: a row whose id is already in the table is not rejected, and
\* afterwards every row of the batch that carries no NULL is in the table
\* with the document's current values.
C8_RerunRefreshesRows ==
    (/\ entry = "transfert_data"
     /\ strategy = "DirectTranslationStrategy"
     /\ hist.phase = "inserted"
     /\ last # NoCall
     /\ last.fault = 0) =>
        /\ SumBad(summary["users"].bad) - SumBad(last.stats_before["users"].bad)
             = Cardinality({i \in 1..Len(last.rows) :
                              NullColumns("users", last.rows[i]) # {}})
        /\ \A i \in 1..Len(last.rows) :
              NullColumns("users", last.rows[i]) = {} => last.rows[i] \in pg_table

\* C9: when the source takes no write between two consecutive runs, the
\* second run leaves the target as the first run left it.
C9_UnchangedSourceIdempotent ==
    hist.pair => hist.run_end = hist.prev_end

C9_Witness ==
    /\ hist.pair
    /\ pc = "idle"
    /\ hist.phase = "inserted"
    /\ last # NoCall
    /\ last.n > 0
    /\ hist.run_end # {}
    /\ hist.run_end = pg_table

\* an incremental run of DirectTranslationStrategy has ended: the run before
\* ended without a failure, the source then took one insert and nothing else,
\* stamped later than the watermark the run read, and the run met no failure
IncrementalRun ==
    /\ entry = "transfert_data"
    /\ strategy = "DirectTranslationStrategy"
    /\ pc = "idle"
    /\ hist.inc
    /\ ~hist.changed
    /\ after_date # NoDate
    /\ mongo_users[hist.run_news[1]].creation_date > after_date
    /\ mongo_users[hist.run_news[1]].update_date > after_date

\* the documents imported before the run whose creation_date is the
\* watermark or later
Boundary ==
    {u \in UserIds \ {hist.run_news[1]} :
        mongo_users[u] # NoDoc /\ Gte(mongo_users[u].creation_date, after_date)}

WatermarkRead ==
    /\ entry = "transfert_data"
    /\ pc = "fetch"
    /\ offset = 0
    /\ hist.phase = "none"

\* every created_at and updated_at value of a table
Timestamps(t, tbl) ==
    {Get(t, r, "created_at") : r \in tbl} \cup {Get(t, r, "updated_at") : r \in tbl}

\* C12: get_last_insert_date returns the greatest created_at or updated_at
\* value of the table when the table has rows, and null when the table has
\* no row or the query yields NULL.
C12_WatermarkIsGreatestTimestamp ==
    /\ LastDateOf(NoDate) = NoDate
    /\ WatermarkRead =>
          IF pg_table = {}
          THEN after_date = NoDate
          ELSE /\ after_date \in Timestamps(table_name, pg_table)
               /\ \A x \in Timestamps(table_name, pg_table) : x <= after_date

C12_Witness ==
    /\ WatermarkRead
    /\ pg_table # {}
    /\ after_date # NoDate
    /\ \A r \in pg_table : Get(table_name, r, "created_at") < after_date
    /\ \E r \in pg_table : Get(table_name, r, "updated_at") = after_date

\* C10: with a watermark w the source filter of every strategy selects a
\* document that meets the static filter iff creation_date >= w or
\* update_date >= w; with no watermark it applies no date condition.
C10_DateFilterIsDisjunction ==
    entry = "transfert_data" =>
        \A u \in UserIds :
            mongo_users[u] # NoDoc =>
                (u \in Matching(strategy, mongo_users, after_date)
                   <=> /\ StaticFilter(strategy, mongo_users[u])
                       /\ \/ after_date = NoDate
                          \/ Gte(mongo_users[u].creation_date, after_date)
                          \/ Gte(mongo_users[u].update_date, after_date))

(***************************************************************************)
(* The start date of a table in run_migration                              *)
(***************************************************************************)
\* the export of the table users is under way
UsersExport ==
    /\ entry = "run_migration"
    /\ pc \in {"batch", "insert"}
    /\ sorted_tables[table_index] = "users"

\* the documents of the collection a start date selects
Selected(w) == Matching(strategy, mongo_users, w)

\* C13 as stated: whatever the last date of the table, null included, the
\* threshold takes no document out of the selection, and the start date is
\* the earlier of the two dates when both are present
C13_AsStated ==
    UsersExport /\ "users" \notin force_reimport =>
        /\ Selected(rlog.table_last_date) \subseteq Selected(after_date)
        /\ rlog.table_last_date # NoDate /\ global_threshold # NoDate =>
               after_date = Min(rlog.table_last_date, global_threshold)

\* C13: for a table that has a last date the threshold takes no document
\* out of the selection and the start date is the earlier of the two dates;
\* for a table without one the start date is the threshold itself
C13_ThresholdWidensAWatermark ==
    UsersExport /\ "users" \notin force_reimport =>
        /\ rlog.table_last_date # NoDate =>
               /\ Selected(rlog.table_last_date) \subseteq Selected(after_date)
               /\ after_date = IF global_threshold = NoDate
                               THEN rlog.table_last_date
                               ELSE Min(rlog.table_last_date, global_threshold)
        /\ rlog.table_last_date = NoDate => after_date = global_threshold

C13_Witness ==
    /\ UsersExport
    /\ "users" \notin force_reimport
    /\ rlog.table_last_date # NoDate
    /\ global_threshold # NoDate
    /\ global_threshold < rlog.table_last_date
    /\ Selected(after_date) # Selected(rlog.table_last_date)

\* every document the collection holds
AllDocuments == {u \in UserIds : mongo_users[u] # NoDoc}

C15_ParentsCompleteBeforeChildren ==
    /\ \A t \in TableNames : \A r \in References(t) :
          export_order(r) < export_order(t)
    /\ entry = "run_migration" =>
          \A t \in rlog.fetched : References(t) \subseteq rlog.completed

C15_Witness ==
    /\ entry = "run_migration"
    /\ pc = "batch"
    /\ sorted_tables[table_index] = "appointments"
    /\ "appointments" \in rlog.fetched
    /\ References("appointments") = {"users", "coachings", "appointment_types"}
    /\ pg_table # {}
    /\ rlog.written

(***************************************************************************)
(* The rows and the columns handed to execute_batch                        *)
(***************************************************************************)
\* the batch of the current turn stands before execute_batch
HandedOver == entry = "transfert_data" /\ pc = "insert"

HandedColumns == BatchColumns(strategy, Collection, documents)

C16_MultiRow ==
    /\ HandedOver
    /\ IsDeleteAndInsert(strategy)
    /\ Len(all_batch_values) > Len(documents)

(***************************************************************************)
(* The ON CONFLICT clause of a table                                       *)
(***************************************************************************)
ClauseReturned ==
    entry = "call" /\ pc = "returned" /\ returned.fn = "get_on_conflict_clause"

\* the columns of the insert: the list, all the columns when there is none
Inserted(schema, columns) ==
    IF columns.given THEN Range(columns.list) ELSE ColumnNames(schema.columns)

PrimaryKeys(schema) ==
    {schema.columns[i].name :
        i \in {k \in 1..Len(schema.columns) : schema.columns[k].primary_key}}

\* the clause that targets the columns target and updates the columns of
\* the set updatable, DO NOTHING when the set is empty
Upsert(clause, target, updatable) ==
    /\ clause.target = target
    /\ Range(clause.update_columns) = updatable
    /\ clause.action = IF updatable = {} THEN "DO NOTHING" ELSE "DO UPDATE SET"

DeleteReturned ==
    entry = "call" /\ pc = "returned" /\ returned.fn = "delete_by_parent_ids"

\* the rows of the table, as the call found it, whose column is in ids
Hit ==
    {r \in returned.before :
        Get(call.table_name, r, call.column_name) \in Range(call.parent_ids)}

\* C18: delete_by_parent_ids removes the rows whose column is in ids and no
\* other, commits and returns their number; a DELETE or a commit that
\* fails leaves the table as it was and the error reaches the caller; with
\* no id it returns 0 and executes no statement
C18_DeleteByParentIds ==
    DeleteReturned =>
        IF call.parent_ids = << >>
        THEN /\ returned.value = 0
             /\ ~returned.raised
             /\ returned.statements = 0
             /\ pg_table = returned.before
        ELSE IF returned.failure # "none"
        THEN /\ returned.raised
             /\ pg_table = returned.before
        ELSE /\ ~returned.raised
             /\ pg_table = returned.before \ Hit
             /\ returned.value = Cardinality(Hit)

\* a DELETE that removed some rows of the table and spared others
C18_Witness ==
    /\ DeleteReturned
    /\ ~returned.raised
    /\ returned.value = 2
    /\ Hit # {}
    /\ pg_table # {}
    /\ pg_table = returned.before \ Hit

(***************************************************************************)
(* The reconciler and the run                                              *)
(***************************************************************************)
\* C19: once the reconciler has reported a blocking error the run reads no
\* watermark, fetches no document and writes no row
C19_BlockingErrorHaltsRun ==
    entry = "run_migration" /\ all_errors # << >> =>
        /\ rlog.watermark_read = {}
        /\ rlog.fetched = {}
        /\ ~rlog.written

\* the reconciler has run and the run stands after it
Reconciled == entry = "run_migration" /\ pc # "setup"

\* C20: the reconciler hands ALTER statements to the cursor only when the
\* plan has no error and the operator's answer, stripped and lowered, is
\* yes or y; on any other answer, and on a plan with an error, it executes
\* none and the columns and foreign keys of the tables stay as they were
C20_AltersOnlyOnConfirmation ==
    Reconciled =>
        /\ executed # << >> =>
              /\ all_errors = << >>
              /\ str_lower(str_strip(response)) \in Affirmative
        /\ all_errors # << >> \/ str_lower(str_strip(response)) \notin Affirmative =>
              /\ executed = << >>
              /\ pg_catalog = rlog.catalog_before

\* the operator answered yes to a plan without error and the column is there
C20_Witness ==
    /\ Reconciled
    /\ all_errors = << >>
    /\ all_statements # << >>
    /\ response = <<"y", "e", "s">>
    /\ executed = all_statements
    /\ pg_catalog # rlog.catalog_before
    /\ pg_catalog = UpToDate

\* the operator answered no and nothing was executed
C20_Declined ==
    /\ Reconciled
    /\ all_statements # << >>
    /\ response = <<"n", "o">>
    /\ executed = << >>
    /\ pg_catalog = rlog.catalog_before
    /\ pg_catalog # UpToDate

(***************************************************************************)
(* The reconciler only adds                                                *)
(***************************************************************************)
ReconcilerOps == {"ALTER TABLE ADD COLUMN", "ALTER TABLE ADD CONSTRAINT FOREIGN KEY"}

\* the table holds what it held: every column under its name and type, and
\* every foreign key
Kept(before, after) ==
    /\ after # NoTable
    /\ before.columns \subseteq after.columns
    /\ before.foreign_keys \subseteq after.foreign_keys
    /\ \A c \in before.columns : c \in before.retyped <=> c \in after.retyped

\* C21: every statement the reconciler generates or executes is a CREATE
\* TABLE IF NOT EXISTS (executed for the tables the target lacks only), an
\* ALTER TABLE ADD COLUMN or an ALTER TABLE ADD CONSTRAINT FOREIGN KEY, and
\* at every point of a run after the reconciler each table and column the
\* target had before the run is still there under the same name and type
C21_ReconcilerOnlyAdds ==
    entry = "run_migration" /\ pc # "setup" =>
        /\ \A i \in 1..Len(all_statements) : all_statements[i].op \in ReconcilerOps
        /\ \A i \in 1..Len(executed) : executed[i].op \in ReconcilerOps
        /\ \A t \in rlog.created : rlog.catalog_initial[t] = NoTable
        /\ \A t \in TableNames :
             rlog.catalog_initial[t] # NoTable =>
                 Kept(rlog.catalog_initial[t], pg_catalog[t])

\* the reconciler added the column role to a table users that holds a
\* column the registry does not know
C21_Witness ==
    /\ entry = "run_migration"
    /\ pc = "done"
    /\ executed # << >>
    /\ "legacy" \in rlog.catalog_initial["users"].columns
    /\ "role" \notin rlog.catalog_initial["users"].columns
    /\ {"legacy", "role"} \subseteq pg_catalog["users"].columns

(***************************************************************************)
(* Deferred mode against direct mode                                       *)
(***************************************************************************)
\* the table after a direct-mode export of k batches of the rows of the
\* model, on a connection that does not fail
RECURSIVE DirectExport(_, _)
DirectExport(tbl, k) ==
    IF k = 0
    THEN [table |-> tbl, raised |-> FALSE]
    ELSE LET d == execute_direct_sql(tbl, ImportSummaryInit, all_batch_values,
                                     SchemaColumns(table_name), table_name,
                                     use_on_conflict, on_conflict_clause, 0)
         IN IF d.raised
            THEN [table |-> tbl, raised |-> TRUE]
            ELSE DirectExport(d.table, k - 1)

\* the end of a deferred-mode export: the file is executed
DeferredApply == entry = "writer" /\ ~DIRECT_IMPORT /\ pc = "loop" /\ pc' = "done"

\* C22: for the same batches and the same target table at the start, the
\* execution of the file a deferred-mode export wrote leaves the table as
\* a direct-mode export that runs to its end leaves it.
C22_DeferredEqualsDirect ==
    [][DeferredApply =>
         LET direct == DirectExport(pg_table, tried \div Len(all_batch_values))
         IN ~direct.raised => pg_table' = direct.table]_vars

(***************************************************************************)
(* The resources of run_migration                                          *)
(***************************************************************************)
\* C23: on every exit path of run_migration (normal completion, an
\* exception of the reconciler or of a table's export, an operator
\* interrupt) the target connection, if it was opened, is closed, the
\* source client is closed, and every SSH tunnel that was started is
\* stopped.
C23_ResourcesReleasedOnExit ==
    (entry = "resources" /\ pc = "exited") =>
        /\ conn # "open"
        /\ mongo_client # "open"
        /\ ssh_tunnel # "started"
        /\ mongo_ssh_tunnel # "started"

(***************************************************************************)
(* SpecSmart: one batch of one parent document of the collection users     *)
(* against user_events, by UserEventsSmartStrategy and by                  *)
(* UserEventsStrategy.  The template method of SmartDiffStrategy is that   *)
(* of the specification, 4.4.4; what a strategy extracts and writes is     *)
(* that of strategies/user_strategies.py.                                  *)
(***************************************************************************)
\* threshold of SmartDiffStrategy, in percent
diff_threshold == 30

\* an extraction that keeps the first element of the array only
extract_current_items_First(doc) == {<<doc.registered_events[1]>>}

\* UserEventsSmartStrategy.extract_current_items: the set of the event ids
\* of the array, each as a tuple
extract_current_items(doc) ==
    {<<doc.registered_events[i]>> : i \in 1..Len(doc.registered_events)}

\* UserEventsSmartStrategy._item_to_sql_values; now is datetime.now()
item_to_sql_values(parent_id, item, now) == <<parent_id, item[1], now, now>>

\* R_rel: SELECT event_id FROM user_events WHERE user_id = <parent>
current_relational_set(tbl, parent_id) ==
    {<<Get("user_events", r, "event_id")>> :
        r \in {q \in tbl : Get("user_events", q, "user_id") = parent_id}}

\* |add| + |remove| <= threshold x |R_src| + |R_rel|
within_threshold(add, remove, R_src, R_rel) ==
    100 * (Cardinality(add) + Cardinality(remove))
        <= diff_threshold * Cardinality(R_src) + 100 * Cardinality(R_rel)

\* DELETE WHERE (parent, child) IN remove
delete_items(tbl, parent_id, remove) ==
    {r \in tbl : ~ /\ Get("user_events", r, "user_id") = parent_id
                   /\ <<Get("user_events", r, "event_id")>> \in remove}

\* INSERT VALUES add, one row per item and no conflict clause
RECURSIVE insert_items(_, _, _, _)
insert_items(tbl, parent_id, items, now) ==
    IF items = {}
    THEN tbl
    ELSE LET item == CHOOSE x \in items : TRUE
             r == PgInsert("user_events", tbl,
                           item_to_sql_values(parent_id, item, now), "")
         IN insert_items(r.table, parent_id, items \ {item}, now)

\* the batch of SmartDiffStrategy for one parent: the targeted delete and
\* insert within the threshold, the full replace of the parent beyond it
smart_diff(tbl, parent_id, doc, now) ==
    LET R_rel == current_relational_set(tbl, parent_id)
        R_src == extract_current_items(doc)
        add == R_src \ R_rel
        remove == R_rel \ R_src
    IN IF within_threshold(add, remove, R_src, R_rel)
       THEN [branch |-> "diff",
             table |-> insert_items(delete_items(tbl, parent_id, remove),
                                    parent_id, add, now)]
       ELSE [branch |-> "replace",
             table |-> insert_items(
                 DeleteWhereIn("user_events", tbl, "user_id", <<parent_id>>),
                 parent_id, R_src, now)]

\* the batch of the migration loop for one parent under UserEventsStrategy:
\* DELETE of the parent's rows, then execute_batch of the extracted rows
delete_and_insert(tbl, parent_id, doc) ==
    execute_direct_sql(
        DeleteWhereIn("user_events", tbl, "user_id", <<parent_id>>),
        ImportSummaryInit, UserEvents_extract_data_for_sql(parent_id, doc),
        user_events_columns, "user_events", FALSE, "", 0).table

\* arrays the filter of both strategies lets through: none is empty
SmartArrays == {<<"e1">>, <<"e2">>, <<"e1", "e2">>, <<"e2", "e1">>, <<"e1", "e1">>}

\* rows user_events can hold before the batch
PriorRows == {<<u, e, 0, 0>> : u \in UserIds, e \in EventIds}

SmartCalls ==
    {[fn |-> "batch", parent_id |-> u, document |-> Doc("f", ev, c, up), now |-> now] :
        u \in UserIds, ev \in SmartArrays, c \in {0, 1}, up \in {NoDate, 1},
        now \in 1..MaxTime}

InitSmart ==
    /\ entry = "smart"
    /\ pc = "called"
    /\ call \in SmartCalls
    /\ returned = NoCallYet
    /\ pg_table \in SUBSET PriorRows
    /\ table_name = "user_events"
    /\ DIRECT_IMPORT = TRUE
    /\ IMPORT_BY_BATCH = TRUE
    /\ strategy = "UserEventsStrategy"
    /\ pg_users = UserIds
    /\ pg_events = EventIds
    /\ summary = ImportSummaryInit
    /\ sql_file = << >>
    /\ use_on_conflict = FALSE
    /\ on_conflict_clause = ""
    /\ all_batch_values = << >>
    /\ tried = 0
    /\ last = NoCall
    /\ mongo_users = [u \in UserIds |-> NoDoc]
    /\ mongo_userquizzs = [q \in QuizzIds |-> NoDoc]
    /\ clock = 0
    /\ batch_size = 1
    /\ after_date = NoDate
    /\ offset = 0
    /\ documents = << >>
    /\ parent_ids_for_deletion = << >>
    /\ edits = 0
    /\ runs = 0
    /\ hist = NoHist
    /\ DetailsIdle
    /\ ResourcesIdle
    /\ RunnerIdle

SmartDiffBatch ==
    /\ entry = "smart"
    /\ pc = "called"
    /\ \E r \in {smart_diff(pg_table, call.parent_id, call.document, call.now)} :
         /\ pg_table' = r.table
         /\ returned' = [fn |-> "SmartDiffStrategy", branch |-> r.branch,
                         before |-> pg_table]
    /\ pc' = "returned"
    /\ UNCHANGED callFrame

DeleteAndInsertBatch ==
    /\ entry = "smart"
    /\ pc = "called"
    /\ pg_table' = delete_and_insert(pg_table, call.parent_id, call.document)
    /\ returned' = [fn |-> "DeleteAndInsertStrategy", branch |-> "replace",
                    before |-> pg_table]
    /\ pc' = "returned"
    /\ UNCHANGED callFrame

NextSmart ==
    \/ SmartDiffBatch
    \/ DeleteAndInsertBatch

SpecSmart == InitSmart /\ [][NextSmart]_vars

\* the keys of the rows of a parent
ParentKeys(tbl, parent_id) ==
    {RowKey("user_events", r) : r \in ParentRows(tbl, <<parent_id>>)}

\* what the other strategy makes of the table the batch started from
OtherBatch ==
    IF returned.fn = "SmartDiffStrategy"
    THEN delete_and_insert(returned.before, call.parent_id, call.document)
    ELSE smart_diff(returned.before, call.parent_id, call.document, call.now).table

\* C24 as stated: after a SmartDiff batch the rows of the parent are the
\* rows a DeleteAndInsert batch leaves on the same document and the same
\* prior rows, whichever branch SmartDiff took.
C24_AsStated ==
    (entry = "smart" /\ pc = "returned") =>
        ParentRows(pg_table, <<call.parent_id>>) = ParentRows(OtherBatch, <<call.parent_id>>)

\* C24 (amended): after a SmartDiff batch the parent has a row for the same
\* (user_id, event_id) pairs as after a DeleteAndInsert batch on the same
\* document and the same prior rows, whichever branch SmartDiff took, and
\* the rows of the other parents are the same; created_at and updated_at
\* of the parent's rows need not agree.
C24_SameRelationships ==
    (entry = "smart" /\ pc = "returned") =>
        /\ ParentKeys(pg_table, call.parent_id) = ParentKeys(OtherBatch, call.parent_id)
        /\ pg_table \ ParentRows(pg_table, <<call.parent_id>>)
             = OtherBatch \ ParentRows(OtherBatch, <<call.parent_id>>)

\* a SmartDiff batch took the targeted branch, kept a row of the parent and
\* added one, and its rows are not those of the DeleteAndInsert batch
C24_Witness ==
    /\ entry = "smart"
    /\ pc = "returned"
    /\ returned.fn = "SmartDiffStrategy"
    /\ returned.branch = "diff"
    /\ ParentRows(returned.before, <<call.parent_id>>) \cap pg_table # {}
    /\ ParentRows(pg_table, <<call.parent_id>>) \ returned.before # {}
    /\ ParentRows(pg_table, <<call.parent_id>>) # ParentRows(OtherBatch, <<call.parent_id>>)

\* the loop fetched a batch with documents in it
FetchedSome == pc = "fetch" /\ vars' # vars /\ documents' # << >>

\* the loop fetched and found no document
FetchedNone == pc = "fetch" /\ vars' # vars /\ documents' = << >>

\* execute_batch was called
ExecuteBatchCalled == tried' > tried

\* C25: in a delete-and-insert run a fetch that returns documents issues
\* the DELETE of the ids of its parents at once and no INSERT with it; every
\* execute_batch is called right after that DELETE and once, with the rows
\* of the batch, use_on_conflict = False and an empty conflict clause; a
\* fetch that returns no document issues neither.
C25_DeleteThenPlainInsert ==
    [][DeleteAndInsertRun =>
        /\ FetchedSome =>
             /\ ~ExecuteBatchCalled
             /\ pc' = "insert"
             /\ hist'.phase = "deleted"
             /\ parent_ids_for_deletion' = documents'
             /\ IF hist'.delete_raised
                THEN pg_table' = pg_table
                ELSE pg_table' = {r \in pg_table :
                                    Get("user_events", r, "user_id")
                                        \notin Range(documents')}
        /\ FetchedNone =>
             /\ ~ExecuteBatchCalled
             /\ pg_table' = pg_table
             /\ pc' = "idle"
        /\ ExecuteBatchCalled =>
             /\ pc = "insert"
             /\ hist.phase = "deleted"
             /\ pc' # "insert"
             /\ use_on_conflict' = FALSE
             /\ on_conflict_clause' = ""
             /\ last'.clause = ""
             /\ last'.rows = all_batch_values
    ]_vars

\* the second batch of a delete-and-insert run ended: its DELETE removed
\* rows of its parents and its execute_batch wrote rows
C25_Witness ==
    /\ DeleteAndInsertRun
    /\ hist.phase = "inserted"
    /\ offset >= 2 * batch_size
    /\ ~hist.delete_raised
    /\ ParentRows(hist.before, parent_ids_for_deletion) # {}
    /\ last.n > 0
    /\ last.after # last.before

\* what cursor.executemany made of the last batch, on the table it found
LastBatchStatement ==
    executemany(table_name, last.before, last.rows, last.clause, last.fault, 1)

\* the batch statement of the last call succeeded
BatchSucceeded ==
    /\ DirectCall
    /\ IMPORT_BY_BATCH
    /\ LastBatchStatement.error = NoError

\* ... without use_on_conflict and with a rowcount that is not the size of
\* the batch
ShortBatch ==
    /\ BatchSucceeded
    /\ ~use_on_conflict
    /\ LastBatchStatement.rowcount # last.n

GoodDelta == summary[table_name].good - last.stats_before[table_name].good
SkippedDelta == summary[table_name].skipped - last.stats_before[table_name].skipped

\* C26: a batch statement that succeeds without use_on_conflict with a
\* rowcount other than the batch size is rolled back to the savepoint and
\* its rows are retried one by one from the table the batch found, so the
\* table holds what the single inserts made of it and every row is counted
\* once, as good or as bad; under use_on_conflict a batch statement that
\* succeeds is not retried: its rowcount is recorded as good and the rest of
\* the batch as skipped.
C26_ShortBatchRetriedRowByRow ==
    /\ ShortBatch =>
         LET retry == handle_batch_errors(table_name, last.before, last.stats_before,
                                          last.rows, last.clause, 0)
         IN /\ ~last.raised
            /\ last.after = retry.table
            /\ summary = retry.stats
            /\ last.ret = retry.ret
            /\ GoodDelta + BadDelta = last.n
            /\ SkippedDelta = 0
    /\ (BatchSucceeded /\ use_on_conflict) =>
         /\ ~last.raised
         /\ last.after = LastBatchStatement.table
         /\ last.ret = LastBatchStatement.rowcount
         /\ GoodDelta = LastBatchStatement.rowcount
         /\ SkippedDelta = last.n - LastBatchStatement.rowcount
         /\ BadDelta = 0

\* a batch of two rows under a conflict clause and without use_on_conflict:
\* the statement skipped a row and inserted the other, and after the retry
\* the table holds the inserted row once and both rows are counted
C26_Witness ==
    /\ ShortBatch
    /\ last.n = 2
    /\ LastBatchStatement.rowcount = 1
    /\ Cardinality(last.after \ last.before) = 1
    /\ GoodDelta = 2

\* C27: when the DELETE of a delete-and-insert batch raises, the loop does
\* not end: the connection is rolled back, so the target is as the batch
\* found it, the cursor is closed, and the next step of the loop is the
\* call of execute_batch with the rows extracted from the documents of the
\* batch.
C27_DeleteErrorPassedOver ==
    (DeleteAndInsertRun /\ hist.delete_raised) =>
        /\ hist.phase = "deleted" =>
             /\ pc = "insert"
             /\ hist.rollback
             /\ hist.cursor_closed
             /\ pg_table = hist.before
             /\ all_batch_values = Transform(strategy, Collection, documents)
             /\ all_batch_values # << >>
        /\ hist.phase \in {"inserted", "raised"} =>
             /\ last.n > 0
             /\ last.rows = all_batch_values
             /\ last.before = hist.before

\* the DELETE of a batch raised while its parents held rows, and
\* execute_batch was called with the rows of the batch all the same
C27_Witness ==
    /\ DeleteAndInsertRun
    /\ hist.delete_raised
    /\ hist.phase = "inserted"
    /\ ParentRows(hist.before, parent_ids_for_deletion) # {}
    /\ last.rows = all_batch_values
    /\ last.n > 0

\* run_migration has prepared the table users and has fetched no batch of it
UsersPrepared == UsersExport /\ "users" \notin rlog.fetched

PrepareUsers ==
    /\ entry = "run_migration"
    /\ pc = "tables"
    /\ pc' = "batch"
    /\ sorted_tables[table_index] = "users"

AllMatching == Ordered(strategy, Collection, Matching(strategy, Collection, after_date))

\* the page of AllMatching that starts at an offset
PageAt(skip) ==
    IF skip >= Len(AllMatching)
    THEN << >>
    ELSE SubSeq(AllMatching, skip + 1, Min(skip + batch_size, Len(AllMatching)))

\* a turn of the loop fetches
Fetches == entry = "transfert_data" /\ pc = "fetch" /\ vars' # vars

\* a turn of the loop ends after its execute_batch
EndsTurn == entry = "transfert_data" /\ pc = "insert" /\ vars' # vars

\* C29: the loop asks for the pages at the offsets 0, B, 2B, ... of the
\* documents the export selects, so every one of them is transformed once;
\* it fetches no more once a fetch came back empty or shorter than B; a
\* full batch whose documents all yield no row is followed by the fetch of
\* the next page.
C29_PagesUntilShortFetch ==
    [][/\ Fetches =>
            /\ offset % batch_size = 0
            /\ documents' = PageAt(offset)
            /\ Len(documents') < batch_size => pc' \in {"idle", "insert"}
            /\ (Len(documents') = batch_size /\ all_batch_values' = << >>) =>
                   pc' = "fetch" /\ offset' = offset + batch_size
            /\ pc' = "insert" =>
                   /\ offset' = offset
                   /\ all_batch_values' = Transform(strategy, Collection, documents')
       /\ EndsTurn =>
            \/ pc' = "idle"
            \/ /\ pc' = "fetch"
               /\ Len(documents) = batch_size
               /\ offset' = offset + batch_size
      ]_vars

(***************************************************************************)
(* SpecFilter: the filter the two UsersTargetsStrategy classes hand to     *)
(* count_documents and to find.  A filter is a dict, here a function from  *)
(* its keys; dict.update replaces the value of a key both dicts hold.      *)
(***************************************************************************)
\* a field the document lacks
Missing == <<"$missing">>

\* {field: {'$exists': True, '$ne': []}} and {field: {'$gte': value}}
NonEmptyArray(field) == [field |-> field, op |-> "$ne", value |-> NoDate]
GteDate(field, w) == [field |-> field, op |-> "$gte", value |-> w]

\* the empty dict
EmptyDict == [k \in {} |-> << >>]

\* a.update(b)
dict_update(a, b) ==
    [k \in DOMAIN a \cup DOMAIN b |-> IF k \in DOMAIN b THEN b[k] ELSE a[k]]

\* MongoRepository.build_date_filter, the dict
MongoRepository_date_filter(w) ==
    IF w = NoDate
    THEN EmptyDict
    ELSE [k \in {"$or"} |-> <<GteDate("creation_date", w), GteDate("update_date", w)>>]

\* ImportUtils.build_date_filter, the dict
ImportUtils_date_filter(w) ==
    IF w = NoDate
    THEN EmptyDict
    ELSE [k \in {"creation_date"} |-> GteDate("creation_date", w)]

\* {'$or': [...]} over the three arrays
TargetArraysFilter ==
    [k \in {"$or"} |-> <<NonEmptyArray("targets"), NonEmptyArray("specificity_targets"),
                         NonEmptyArray("health_targets")>>]

\* UsersTargetsStrategy is the class of strategies/user_strategies.py,
\* SchemaUsersTargetsStrategy the one schemas.py registers for users_targets
TargetsStrategies == {"UsersTargetsStrategy", "SchemaUsersTargetsStrategy"}

\* mongo_filter of UsersTargetsStrategy.count_total_documents
UsersTargets_count_filter(s, w) ==
    dict_update(TargetArraysFilter,
                IF s = "UsersTargetsStrategy"
                THEN MongoRepository_date_filter(w)
                ELSE ImportUtils_date_filter(w))

\* mongo_filter of UsersTargetsStrategy.get_documents
UsersTargets_fetch_filter(s, w) ==
    dict_update(TargetArraysFilter,
                IF s = "UsersTargetsStrategy"
                THEN MongoRepository_date_filter(w)
                ELSE ImportUtils_date_filter(w))

\* a condition on a field, as the source engine evaluates it
Holds(c, doc) ==
    IF c.op = "$gte"
    THEN Gte(doc[c.field], c.value)
    ELSE doc[c.field] # Missing /\ doc[c.field] # << >>

\* a document matches a filter: every key holds, $or by one of its members
Matches(filter, doc) ==
    \A k \in DOMAIN filter :
        IF k = "$or"
        THEN \E i \in 1..Len(filter[k]) : Holds(filter[k][i], doc)
        ELSE Holds(filter[k], doc)

TargetsDoc(t, s, h, c, u) ==
    [targets |-> t, specificity_targets |-> s, health_targets |-> h,
     creation_date |-> c, update_date |-> u]

TargetsDocs ==
    {TargetsDoc(t, s, h, c, u) :
        t \in {Missing, << >>, <<"t1">>}, s \in {<< >>, <<"t2">>}, h \in {<< >>},
        c \in {0, MaxTime}, u \in {NoDate, MaxTime}}

FilterCalls ==
    {[fn |-> f, strategy |-> s, after_date |-> w, collection |-> coll] :
        f \in {"count_total_documents", "get_documents"}, s \in TargetsStrategies,
        w \in {NoDate, 1}, coll \in [UserIds -> TargetsDocs]}

InitFilter ==
    /\ entry = "filter"
    /\ pc = "called"
    /\ call \in FilterCalls
    /\ returned = NoCallYet
    /\ pg_table = {}
    /\ table_name = "users_targets"
    /\ DIRECT_IMPORT = TRUE
    /\ IMPORT_BY_BATCH = TRUE
    /\ strategy = "DirectTranslationStrategy"
    /\ pg_users = UserIds
    /\ pg_events = EventIds
    /\ summary = ImportSummaryInit
    /\ sql_file = << >>
    /\ use_on_conflict = FALSE
    /\ on_conflict_clause = ""
    /\ all_batch_values = << >>
    /\ tried = 0
    /\ last = NoCall
    /\ mongo_users = [u \in UserIds |-> NoDoc]
    /\ mongo_userquizzs = [q \in QuizzIds |-> NoDoc]
    /\ clock = 0
    /\ batch_size = MaxBatchSize
    /\ after_date = NoDate
    /\ offset = 0
    /\ documents = << >>
    /\ parent_ids_for_deletion = << >>
    /\ edits = 0
    /\ runs = 0
    /\ hist = NoHist
    /\ DetailsIdle
    /\ ResourcesIdle
    /\ RunnerIdle

\* UsersTargetsStrategy.count_total_documents
CountTotalDocuments ==
    /\ entry = "filter"
    /\ pc = "called"
    /\ call.fn = "count_total_documents"
    /\ \E mongo_filter \in {UsersTargets_count_filter(call.strategy, call.after_date)} :
       \E found \in {{u \in UserIds : Matches(mongo_filter, call.collection[u])}} :
         returned' = [fn |-> call.fn, filter |-> mongo_filter, selected |-> found,
                      value |-> Cardinality(found)]
    /\ pc' = "returned"
    /\ UNCHANGED <<callFrame, pg_table>>

\* UsersTargetsStrategy.get_documents at offset 0, the collection being no
\* larger than a batch
GetDocuments ==
    /\ entry = "filter"
    /\ pc = "called"
    /\ call.fn = "get_documents"
    /\ \E mongo_filter \in {UsersTargets_fetch_filter(call.strategy, call.after_date)} :
       \E found \in {{u \in UserIds : Matches(mongo_filter, call.collection[u])}} :
         returned' = [fn |-> call.fn, filter |-> mongo_filter, selected |-> found,
                      value |-> Cardinality(found)]
    /\ pc' = "returned"
    /\ UNCHANGED <<callFrame, pg_table>>

NextFilter ==
    \/ CountTotalDocuments
    \/ GetDocuments

SpecFilter == InitFilter /\ [][NextFilter]_vars

\* one of the three arrays of a document is there and not empty
HasTargets(doc) ==
    \E f \in {"targets", "specificity_targets", "health_targets"} :
        doc[f] # Missing /\ doc[f] # << >>

\* C30: with a non-null after_date the users_targets strategy counts and
\* fetches a user only if one of targets, specificity_targets and
\* health_targets is a non-empty array and creation_date or update_date is
\* at or after after_date, and the count and the fetch use the same filter.
C30_ArraysAndDateBothConstrain ==
    (entry = "filter" /\ pc = "returned" /\ call.after_date # NoDate) =>
        /\ \A u \in returned.selected :
              /\ HasTargets(call.collection[u])
              /\ \/ Gte(call.collection[u].creation_date, call.after_date)
                 \/ Gte(call.collection[u].update_date, call.after_date)
        /\ UsersTargets_count_filter(call.strategy, call.after_date)
             = UsersTargets_fetch_filter(call.strategy, call.after_date)


(***************************************************************************)
(* The watermark and the documents a run did not apply                     *)
(***************************************************************************)
\* C31: every document a row of which was rejected in a run and that is not
\* modified afterwards is selected again by the next run, even when the run
\* that rejected it imported other documents with later timestamps: the
\* watermark never passes a document that has not been applied.
C31_RejectedSelectedAgain ==
    (entry = "transfert_data" /\ runs >= 2) =>
        hist.prev_rejected \subseteq hist.selected


(***************************************************************************)
(* The summary after a call of execute_batch that raised                   *)
(***************************************************************************)
\* execute_batch has raised: the connection was rolled back
BatchRaised == last # NoCall /\ last.raised

\* C32: whenever execute_batch raises, the good count of the table's
\* summary is the same as before the call: no row of a batch that was
\* rolled back is counted as imported, with IMPORT_BY_BATCH and without.
C32_RolledBackRowsNotCounted ==
    BatchRaised =>
        /\ pg_table = last.before
        /\ summary[table_name].good = last.stats_before[table_name].good


(***************************************************************************)
(* An exception that leaves the export of a table                          *)
(***************************************************************************)
\* the tables that come after the current one in the order of the run
LaterTables == {sorted_tables[j] : j \in (table_index + 1)..Len(sorted_tables)}

\* the tables the run has read the last date or the collection of
Processed == rlog.watermark_read \cup rlog.fetched \cup rlog.completed

\* C33: an exception that escapes the export of a table aborts that table
\* with the current batch rolled back, and the runner goes on to the next
\* table only for an error classified as recoverable: run_migration
\* classifies none, so after any such exception the run is over, the table
\* is not completed and no later table is processed.
C33_ExportExceptionEndsRun ==
    (entry = "run_migration" /\ rlog.raised # {}) =>
        /\ pc = "aborted"
        /\ rlog.raised = {sorted_tables[table_index]}
        /\ sorted_tables[table_index] \notin rlog.completed
        /\ LaterTables \cap Processed = {}
        /\ (last # NoCall /\ last.raised) => pg_table = last.before

\* the INSERT of a batch of users has raised after earlier tables were
\* exported, with tables still to come
C33_Witness ==
    /\ entry = "run_migration"
    /\ pc = "aborted"
    /\ rlog.raised = {"users"}
    /\ last # NoCall
    /\ last.raised
    /\ last.n > 0
    /\ rlog.completed # {}
    /\ LaterTables # {}


(***************************************************************************)
(* execute_sql_file, statement by statement                                *)
(***************************************************************************)
\* execute_sql_file has returned
FileExecuted ==
    /\ entry = "writer"
    /\ pc = "done"
    /\ returned # NoCallYet
    /\ returned.fn = "execute_sql_file"

\* the errors a summary holds, all entities and reasons together
ErrorsOf(stats) ==
    SumBad(stats["users"].bad) + SumBad(stats["USERS"].bad)
      + SumBad(stats["user_events"].bad) + SumBad(stats["USER_EVENTS"].bad)
      + SumBad(stats["unknown"].bad)

\* a statement the target takes whatever the table holds, but for a
\* conflict on its key: a whole INSERT with every column set and every
\* foreign key met
Sound(st) ==
    /\ "fragment" \notin DOMAIN st
    /\ Len(st.values) = Len(SchemaColumns(st.table))
    /\ ~(st.clause = DO_NOTHING /\ "id" \notin Range(SchemaColumns(st.table)))
    /\ NullColumns(st.table, st.values) = {}
    /\ ForeignKeyBroken(st.table, st.values) = {}

KeysOf(tbl) == {RowKey(table_name, r) : r \in tbl}

\* C34: execute_sql_file applies each statement of the file under its own
\* savepoint: a statement that fails is rolled back alone and recorded as
\* one error, every other statement is applied and committed whatever
\* failed before it, the returned count is the number of statements that
\* succeeded, and without a file it returns 0 and changes nothing.
C34_StatementsFailAlone ==
    FileExecuted =>
        LET S == returned.statements
            sound == {i \in 1..Len(S) : Sound(S[i])}
            failed == ErrorsOf(summary) - ErrorsOf(returned.stats_before)
        IN /\ returned.value + failed = Len(S)
           /\ failed >= Len(S) - Cardinality(sound)
           /\ \A i \in sound : RowKey(table_name, S[i].values) \in KeysOf(pg_table)
           /\ KeysOf(pg_table) =
                 KeysOf(returned.before)
                   \cup {RowKey(table_name, S[i].values) : i \in sound}
           /\ \A e \in Entities : summary[e].good = returned.stats_before[e].good
           /\ S = << >> => /\ returned.value = 0
                           /\ pg_table = returned.before
                           /\ summary = returned.stats_before

\* a file whose first statement fails and whose second statement is applied
C34_Witness ==
    /\ FileExecuted
    /\ Len(returned.statements) >= 2
    /\ ~Sound(returned.statements[1])
    /\ Sound(returned.statements[2])
    /\ returned.value = Len(returned.statements) - 1
    /\ pg_table # returned.before


(***************************************************************************)
(* NOT NULL on the columns the reconciler adds                             *)
(***************************************************************************)
\* the plan of the reconciler has just been made: the tables still hold
\* the rows generate_alter_statements counted
PlanMade == entry = "run_migration" /\ pc = "tables" /\ table_index = 1

\* the columns of the registry a table of the target lacks
MissingColumns(t) ==
    {i \in 1..Len(TABLE_SCHEMAS(t).columns) :
        TABLE_SCHEMAS(t).columns[i].name \notin rlog.catalog_before[t].columns}

\* the ADD COLUMN statements and the errors of the plan for a column
AddColumnsFor(t, c) ==
    {i \in 1..Len(all_statements) :
        /\ all_statements[i].op = "ALTER TABLE ADD COLUMN"
        /\ all_statements[i].table = t
        /\ all_statements[i].column = c}
ErrorsFor(t, c) ==
    {i \in 1..Len(all_errors) : all_errors[i].table = t /\ all_errors[i].column = c}

\* C35: for a column of the registry the target lacks,
\* generate_alter_statements emits ADD COLUMN with NOT NULL only when the
\* column is non-nullable and the table has no row; for a non-nullable
\* column of a table with rows it emits the column as nullable and records
\* one error naming the column; a nullable column comes without NOT NULL
\* and without error.
C35_NotNullOnlyOnEmptyTable ==
    PlanMade =>
        \A t \in TableNames : \A k \in MissingColumns(t) :
            LET c == TABLE_SCHEMAS(t).columns[k]
                row_count == RowCount(t, pg_table, pg_events)
            IN /\ Cardinality(AddColumnsFor(t, c.name)) = 1
               /\ \A i \in AddColumnsFor(t, c.name) :
                     all_statements[i].not_null = (~c.nullable /\ row_count = 0)
               /\ Cardinality(ErrorsFor(t, c.name)) =
                     IF ~c.nullable /\ row_count > 0 THEN 1 ELSE 0

\* the table users holds a row and lacks the non-nullable column role
C35_Witness ==
    /\ PlanMade
    /\ pg_table # {}
    /\ \E k \in MissingColumns("users") :
          /\ TABLE_SCHEMAS("users").columns[k].name = "role"
          /\ ~TABLE_SCHEMAS("users").columns[k].nullable
    /\ \E i \in AddColumnsFor("users", "role") : ~all_statements[i].not_null
    /\ ErrorsFor("users", "role") # {}


(***************************************************************************)
(* SpecDetails: the tables users_logbooks_moments and                      *)
(* users_logbooks_moments_details of a run of the migration loop, the      *)
(* second fed by the cache the extraction of the first fills               *)
(***************************************************************************)
\* positional parameters of ImportStrategy.get_on_conflict_clause after
\* self, and positional arguments of the call in
\* UsersLogbooksMomentsDetailsStrategy.export_data
get_on_conflict_clause_parameters == 1
export_data_call_arguments == 2

\* a call with positional arguments only raises TypeError unless the
\* function takes as many (no default, no *args)
TypeError(parameters, arguments) == arguments # parameters

DetailsQuizzs ==
    [QuizzIds -> {NoDoc} \cup
                 {Quizz(q, a, l, d[1], d[2]) :
                    q \in {<< >>, <<"k1">>, <<"k1", "k2">>}, a \in BOOLEAN,
                    l \in {NULL, "l1"}, d \in ExportDates}]

InitDetails ==
    /\ entry = "transfert_data"
    /\ pc = "idle"
    /\ DIRECT_IMPORT = TRUE
    /\ IMPORT_BY_BATCH = TRUE
    /\ strategy = "UsersLogbooksMomentsStrategy"
    /\ table_name = TableOf(strategy)
    /\ pg_table = {}
    /\ pg_users = UserIds
    /\ pg_events = {"e1"}
    /\ summary = ImportSummaryInit
    /\ sql_file = << >>
    /\ use_on_conflict = FALSE
    /\ on_conflict_clause = ""
    /\ all_batch_values = << >>
    /\ tried = 0
    /\ last = NoCall
    /\ mongo_userquizzs \in DetailsQuizzs
    /\ mongo_users = [u \in UserIds |-> NoDoc]
    /\ clock = 0
    /\ batch_size \in 1..MaxBatchSize
    /\ after_date = NoDate
    /\ offset = 0
    /\ documents = << >>
    /\ parent_ids_for_deletion = << >>
    /\ edits = 0
    /\ runs = 0
    /\ hist = NoHist
    /\ DetailsIdle
    /\ ResourcesIdle
    /\ CallIdle
    /\ RunnerIdle

\* the turn of the migration loop for users_logbooks_moments_details, once
\* the turn for users_logbooks_moments is over:
\* UsersLogbooksMomentsDetailsStrategy.export_data.  With an empty cache it
\* returns 0; otherwise the arguments of execute_batch are evaluated, the
\* call of get_on_conflict_clause among them, then the batch is executed
\* and the cache emptied
DetailsExport ==
    /\ entry = "transfert_data"
    /\ strategy = "UsersLogbooksMomentsStrategy"
    /\ pc = "idle"
    /\ hist.details = "pending"
    /\ hist.phase \notin {"raised", "interrupted"}
    /\ IF moments_details_batch_cache = << >>
       THEN /\ hist' = [hist EXCEPT !.details = "done"]
            /\ UNCHANGED <<moments_details_batch_cache, pg_details>>
       ELSE IF TypeError(get_on_conflict_clause_parameters, export_data_call_arguments)
       THEN /\ hist' = [hist EXCEPT !.details = "raised"]
            /\ UNCHANGED <<moments_details_batch_cache, pg_details>>
       ELSE \E fault \in 0..Len(moments_details_batch_cache) :
            \E r \in {execute_batch(pg_details, sql_file, ImportSummaryInit,
                                    moments_details_batch_cache, details_columns,
                                    "users_logbooks_moments_details",
                                    TRUE, DO_UPDATE, fault)} :
              /\ pg_details' = r.table
              /\ IF r.raised
                 THEN /\ hist' = [hist EXCEPT
                                    !.details = "raised",
                                    !.handed = moments_details_batch_cache]
                      /\ UNCHANGED moments_details_batch_cache
                 ELSE /\ hist' = [hist EXCEPT
                                    !.details = "done",
                                    !.handed = moments_details_batch_cache]
                      /\ moments_details_batch_cache' = << >>
    /\ UNCHANGED <<configFrame, sourceVars, pc, pg_table, summary, sql_file,
                   use_on_conflict, on_conflict_clause, all_batch_values, tried, last,
                   after_date, offset, documents, parent_ids_for_deletion, runs>>

NextDetails ==
    \/ Step1
    \/ Step3
    \/ Step4
    \/ DetailsExport

SpecDetails == InitDetails /\ [][NextDetails]_vars

\* the moments phase of a run starts
MomentsStart ==
    entry = "transfert_data" /\ strategy = "UsersLogbooksMomentsStrategy"
        /\ runs' = runs + 1

\* the details phase of a run takes place
DetailsPhase ==
    entry = "transfert_data" /\ strategy = "UsersLogbooksMomentsStrategy"
        /\ hist.details = "pending" /\ runs' = runs /\ hist'.details # "pending"

\* C36: the details rows the users_logbooks_moments_details export writes
\* are exactly the rows the users_logbooks_moments extraction of the same
\* run accumulated in the module-level cache: the cache is empty when the
\* moments phase starts, it is emptied after the details phase, and every
\* cached row references a moment the extraction of that run produced.
C36_DetailsWrittenAreCachedRows ==
    [][/\ MomentsStart => moments_details_batch_cache' = << >>
       /\ DetailsPhase =>
             /\ hist'.handed = moments_details_batch_cache
             /\ moments_details_batch_cache' = << >>
       /\ \A i \in 1..Len(moments_details_batch_cache') :
             moments_details_batch_cache'[i][2] \in Range(hist'.produced)]_vars


(***************************************************************************)
(* C37: a query of the last date that fails                                *)
(***************************************************************************)
\* the table of this turn has had its last date read and nothing fetched
WatermarkFailed ==
    /\ entry = "run_migration"
    /\ pc = "batch"
    /\ sorted_tables[table_index] \in rlog.query_failed
    /\ sorted_tables[table_index] \notin rlog.fetched

\* get_last_insert_date returned None and the start date is the one of an
\* empty table
ReadAsEmpty ==
    WatermarkFailed => /\ rlog.table_last_date = NoDate
                       /\ after_date = global_threshold

\* C37: when the query of the last date of a table fails with a database
\* error, get_last_insert_date returns None and the run goes on: the table
\* is read from the global threshold, or in full without one, and its
\* export is not ended by the failure
C37_FailedWatermarkImportsAsEmpty ==
    /\ ReadAsEmpty
    /\ entry = "run_migration" => rlog.query_failed \cap rlog.refused = {}


(***************************************************************************)
(* SpecArray: ArrayExtractionStrategy.extract_data_for_sql on one parent   *)
(* document.  The array holds child identifiers or embedded documents; the *)
(* child collection holds any of the children.  The configuration has no   *)
(* value_transformer: the rows are those of _default_transform.            *)
(***************************************************************************)
MaxItems == 3

ChildIds == {"c1", "c2"}

\* an element of the array: an ObjectId, or a dict with its own _id
ArrayItem(kind, c) == [kind |-> kind, id |-> c]

ChildDoc(c) == [id |-> c, creation_date |-> 0, update_date |-> NoDate]

ArraysOf(kind) ==
    UNION {[1..n -> {ArrayItem(kind, c) : c \in ChildIds}] : n \in 0..MaxItems}

\* _default_transform
default_transform(parent_id, child_doc) ==
    <<child_doc.id, parent_id, child_doc.creation_date, child_doc.update_date>>

\* the loop over child_ids that appends nothing and records nothing for an
\* identifier without a document
RECURSIVE child_rows_DropMissing(_, _, _, _, _, _)
child_rows_DropMissing(stats, t, parent_id, child_ids, children_docs, i) ==
    IF i > Len(child_ids)
    THEN [rows |-> << >>, stats |-> stats]
    ELSE IF child_ids[i].id \in DOMAIN children_docs
    THEN LET rest == child_rows_DropMissing(stats, t, parent_id, child_ids,
                                            children_docs, i + 1)
         IN [rest EXCEPT !.rows = <<default_transform(parent_id,
                                        children_docs[child_ids[i].id])>> \o @]
    ELSE child_rows_DropMissing(stats, t, parent_id, child_ids, children_docs, i + 1)

\* the loop over child_ids from its element i on: a row for an identifier
\* that children_docs holds, an error for one it does not
RECURSIVE child_rows(_, _, _, _, _, _)
child_rows(stats, t, parent_id, child_ids, children_docs, i) ==
    IF i > Len(child_ids)
    THEN [rows |-> << >>, stats |-> stats]
    ELSE IF child_ids[i].id \in DOMAIN children_docs
    THEN LET rest == child_rows(stats, t, parent_id, child_ids, children_docs, i + 1)
         IN [rest EXCEPT !.rows = <<default_transform(parent_id,
                                        children_docs[child_ids[i].id])>> \o @]
    ELSE child_rows(record_error(stats, t, "Child document not found",
                                 [id |-> child_ids[i].id, parent_id |-> parent_id]),
                    t, parent_id, child_ids, children_docs, i + 1)

\* child_collection.find({'_id': {'$in': child_ids}}) as the dict the
\* function builds of it, by _id
ChildrenDocs(child_collection, child_ids) ==
    LET found == {c \in DOMAIN child_collection :
                     /\ child_collection[c] # NoDoc
                     /\ \E i \in 1..Len(child_ids) : child_ids[i].id = c}
    IN [c \in found |-> child_collection[c]]

\* ArrayExtractionStrategy.extract_data_for_sql.  has_collection: the
\* configuration names a child collection.  _default_transform subscripts
\* its argument: on an ObjectId it raises TypeError
ArrayExtraction_extract_data_for_sql(stats, t, document, has_collection, child_collection) ==
    LET parent_id == document.id
        array_items == document.items
        embedded == [i \in 1..Len(array_items) |->
                        default_transform(parent_id, ChildDoc(array_items[i].id))]
    IN IF array_items = << >>
       THEN [rows |-> << >>, stats |-> stats, raised |-> FALSE]
       ELSE IF has_collection
       THEN IF array_items[1].kind = "dict"
            THEN [rows |-> embedded, stats |-> stats, raised |-> FALSE]
            ELSE LET r == child_rows(stats, t, parent_id, array_items,
                                     ChildrenDocs(child_collection, array_items), 1)
                 IN [rows |-> r.rows, stats |-> r.stats, raised |-> FALSE]
       ELSE IF array_items[1].kind = "dict"
       THEN [rows |-> embedded, stats |-> stats, raised |-> FALSE]
       ELSE [rows |-> << >>, stats |-> stats, raised |-> TRUE]

ArraySummaries ==
    {ImportSummaryInit,
     record_error(ImportSummaryInit, "user_events", "Child document not found",
                  [id |-> "c1", parent_id |-> "p0"])}

ArrayCalls ==
    {[fn |-> "extract_data_for_sql", document |-> [id |-> "p1", items |-> a],
      has_collection |-> h, child_collection |-> coll] :
        a \in ArraysOf("id") \cup ArraysOf("dict"), h \in BOOLEAN,
        coll \in [ChildIds -> {NoDoc}] \cup
                 {[c \in ChildIds |-> IF c \in there THEN ChildDoc(c) ELSE NoDoc] :
                     there \in SUBSET ChildIds}}

InitArray ==
    /\ entry = "array"
    /\ pc = "called"
    /\ call \in ArrayCalls
    /\ returned = NoCallYet
    /\ summary \in ArraySummaries
    /\ pg_table = {}
    /\ table_name = "user_events"
    /\ DIRECT_IMPORT = TRUE
    /\ IMPORT_BY_BATCH = TRUE
    /\ strategy = "ArrayExtractionStrategy"
    /\ pg_users = UserIds
    /\ pg_events = EventIds
    /\ sql_file = << >>
    /\ use_on_conflict = TRUE
    /\ on_conflict_clause = ""
    /\ all_batch_values = << >>
    /\ tried = 0
    /\ last = NoCall
    /\ mongo_users = [u \in UserIds |-> NoDoc]
    /\ mongo_userquizzs = [q \in QuizzIds |-> NoDoc]
    /\ clock = 0
    /\ batch_size = MaxBatchSize
    /\ after_date = NoDate
    /\ offset = 0
    /\ documents = << >>
    /\ parent_ids_for_deletion = << >>
    /\ edits = 0
    /\ runs = 0
    /\ hist = NoHist
    /\ DetailsIdle
    /\ ResourcesIdle
    /\ RunnerIdle

\* one call of extract_data_for_sql with the summary of the table
ExtractDataForSql ==
    /\ entry = "array"
    /\ pc = "called"
    /\ \E r \in {ArrayExtraction_extract_data_for_sql(summary, table_name,
                     call.document, call.has_collection, call.child_collection)} :
         /\ summary' = r.stats
         /\ returned' = [fn |-> call.fn, rows |-> r.rows, raised |-> r.raised,
                         stats_before |-> summary]
    /\ pc' = "returned"
    /\ UNCHANGED <<entry, DIRECT_IMPORT, IMPORT_BY_BATCH, table_name, pg_users,
                   pg_events, strategy, batch_size, runnerVars, mongo_userquizzs,
                   call, resourceVars, sourceVars, detailVars, loopVars, sql_file,
                   use_on_conflict, on_conflict_clause, all_batch_values, tried,
                   last, pg_table>>

NextArray == ExtractDataForSql

SpecArray == InitArray /\ [][NextArray]_vars

\* the call is over, its array held identifiers and the configuration
\* names the collection of the children
ChildIdsExtracted ==
    /\ entry = "array"
    /\ pc = "returned"
    /\ call.has_collection
    /\ call.document.items # << >>
    /\ call.document.items[1].kind = "id"

\* the positions of the array whose child document is there, or is not
ElementsWhere(there) ==
    {i \in 1..Len(call.document.items) :
        (call.child_collection[call.document.items[i].id] # NoDoc) = there}

NotFound(stats) == BadCount(stats[table_name].bad, "Child document not found")

\* C38: for a parent whose array holds child identifiers,
\* extract_data_for_sql returns one row per element whose child document
\* exists, in the order of the array, and records one 'Child document not
\* found' error per element whose child document is missing: the rows and
\* the errors of the call add up to the number of elements
C38_RowOrErrorPerElement ==
    ChildIdsExtracted =>
        /\ ~returned.raised
        /\ Len(returned.rows) = Cardinality(ElementsWhere(TRUE))
        /\ NotFound(summary) - NotFound(returned.stats_before) =
               Cardinality(ElementsWhere(FALSE))
        /\ SumBad(summary[table_name].bad) =
               SumBad(returned.stats_before[table_name].bad)
                 + Cardinality(ElementsWhere(FALSE))
        /\ Len(returned.rows) + NotFound(summary) - NotFound(returned.stats_before) =
               Len(call.document.items)
        /\ \A i \in 1..Len(returned.rows) :
              /\ returned.rows[i][2] = call.document.id
              /\ call.child_collection[returned.rows[i][1]] # NoDoc

\* an array that names the same missing child twice and an existing one
C38_Witness ==
    /\ ChildIdsExtracted
    /\ Len(call.document.items) = 3
    /\ Cardinality(ElementsWhere(FALSE)) = 2
    /\ Len(returned.rows) = 1
    /\ NotFound(returned.stats_before) = 1
    /\ NotFound(summary) = 3

=============================================================================
